---- MODULE Spec2Model ----
(***************************************************************************)
(* The term resolution and ranking engine of the LOINC lookup scripts:     *)
(* loinc_fetal_biometry_remote_query.py ("remote") and its earlier draft   *)
(* loinc_lookup.py ("lookup").  run() probes authentication, then for      *)
(* every term gathers candidates with $expand, enriches them with          *)
(* $lookup, selects with the strict-then-relaxed policy and builds rows.   *)
(*                                                                         *)
(* Strings are TLA+ strings.  What the code reads off a string (substring  *)
(* tests against its literals, split(), upper(), startswith()) is given    *)
(* by tables over the strings that occur in the model.                     *)
(***************************************************************************)
EXTENDS Integers, Sequences, FiniteSets, TLC

----------------------------------------------------------------------------
(* Python values *)

\* Optional values (x or None): a set with at most one element.
None == {}
Some(x) == {x}
The(o) == CHOOSE x \in o : TRUE

\* dict.get(k)
Get(d, k) == IF k \in DOMAIN d THEN Some(d[k]) ELSE None

\* (x or "")
OrEmpty(o) == IF o = None THEN "" ELSE The(o)

Max(a, b) == IF a >= b THEN a ELSE b
Min(a, b) == IF a <= b THEN a ELSE b

\* s[:n] of Python, n of either sign
Slice(s, n) ==
  IF n >= 0 THEN SubSeq(s, 1, Min(n, Len(s)))
  ELSE SubSeq(s, 1, Max(Len(s) + n, 0))

----------------------------------------------------------------------------
(* Strings of the model *)

\* The literals of the code, and the tokens of the model's strings, that occur
\* in s.lower().
Fragments(s) ==
  CASE s = "HC (cm)" -> {"(cm)", "hc"}
    [] s = "EFW Percentile" -> {"percentile", "efw"}
    [] s = "EFW (g)" -> {"(g)", "efw"}
    [] s = "EFW" -> {"efw"}
    [] s = "estimated fetal weight" ->
         {"estimated", "fetal", "weight", "estimated fetal weight"}
    [] s = "estimated fetal weight [Length]" ->
         {"estimated", "fetal", "weight", "estimated fetal weight", "length", "[length]"}
    [] s = "Presentation" -> {"presentation"}
    [] s = "HC" -> {"hc"}
    [] s = "Left HC" -> {"left", "left ", "hc"}
    [] s = "FL/AC" -> {"/", "ac"}
    [] s = "femur length ratio abdominal circumference" ->
         {"length", "circumference", "femur", " ratio ", "abdominal circumference", "abdominal",
          "ratio"}
    [] s = "femur length ratio abdominal circumference [Length]" ->
         {"length", "circumference", "femur", " ratio ", "abdominal circumference", "abdominal",
          "ratio", "[length]"}
    [] s = "head circumference" -> {"circumference", "head", "head circumference"}
    [] s = "head circumference [Length]" ->
         {"length", "circumference", "[length]", "head", "head circumference"}
    [] s = "EFW Percentile [Length]" -> {"percentile", "length", "efw", "[length]"}
    [] s = "Presentation [Length]" -> {"length", "[length]", "presentation"}
    [] s = "Fetal Head Circumference US" ->
         {"fetal", "us", " us", "circumference", "head", "head circumference"}
    [] s = "Head Circumference Fetal US" ->
         {"fetal", "us", " us", "circumference", "head", "head circumference"}
    [] s = "Fetal Head Circumference US estimated from AC" ->
         {"fetal", "us", "estimated from", " us", "circumference", "estimated", "ac", "from", "head",
          "head circumference"}
    [] s = "Fetal Head Circumference percentile" ->
         {"fetal", "percentile", "circumference", "head", "head circumference"}
    [] s = "Head circumference" -> {"circumference", "head", "head circumference"}
    [] s = "Abdominal circumference" -> {"abdominal", "circumference", "abdominal circumference"}
    [] s = "Cephalic presentation" -> {"cephalic", "presentation"}
    [] s = "OB.US" -> {"us", "ob"}
    [] s = "Head" -> {"head"}
    [] OTHER -> {}

\* lit in s.lower()
LowerHas(s, lit) == lit \in Fragments(s)

\* s.lower().split()
Tokens(s) ==
  CASE s = "head circumference" -> <<"head", "circumference">>
    [] s = "EFW Percentile" -> <<"efw", "percentile">>
    [] s = "Presentation" -> <<"presentation">>
    [] s = "Left HC" -> <<"left", "hc">>
    [] s = "head circumference [Length]" -> <<"head", "circumference", "[length]">>
    [] s = "EFW Percentile [Length]" -> <<"efw", "percentile", "[length]">>
    [] s = "Presentation [Length]" -> <<"presentation", "[length]">>
    [] s = "estimated fetal weight" -> <<"estimated", "fetal", "weight">>
    [] s = "estimated fetal weight [Length]" -> <<"estimated", "fetal", "weight", "[length]">>
    [] s = "femur length ratio abdominal circumference" ->
         <<"femur", "length", "ratio", "abdominal", "circumference">>
    [] s = "femur length ratio abdominal circumference [Length]" ->
         <<"femur", "length", "ratio", "abdominal", "circumference", "[length]">>
    [] s = "Fetal Head Circumference US" -> <<"fetal", "head", "circumference", "us">>
    [] s = "Head Circumference Fetal US" -> <<"head", "circumference", "fetal", "us">>
    [] s = "Fetal Head Circumference US estimated from AC" ->
         <<"fetal", "head", "circumference", "us", "estimated", "from", "ac">>
    [] s = "Fetal Head Circumference percentile" -> <<"fetal", "head", "circumference", "percentile">>
    [] s = "Head circumference" -> <<"head", "circumference">>
    [] s = "Abdominal circumference" -> <<"abdominal", "circumference">>
    [] s = "Cephalic presentation" -> <<"cephalic", "presentation">>
    [] OTHER -> <<>>

\* s.strip().upper()
Upper(s) ==
  CASE s = "Qn" -> "QN"
    [] s = "qn" -> "QN"
    [] s = "HC" -> "HC"
    [] s = "EFW Percentile" -> "EFW PERCENTILE"
    [] s = "Presentation" -> "PRESENTATION"
    [] OTHER -> s

\* s.lower(), for the strings compared whole
Lower(s) ==
  CASE s = "Fetus" -> "fetus"
    [] s = "HC" -> "hc"
    [] s = "EFW" -> "efw"
    [] s = "EFW Percentile" -> "efw percentile"
    [] s = "Presentation" -> "presentation"
    [] s = "FL/AC" -> "fl/ac"
    [] s = "femur length ratio abdominal circumference" ->
         "femur length ratio abdominal circumference"
    [] OTHER -> s

\* code.startswith(prefix) for the two reserved prefixes
StartsWith(code, prefix) ==
  CASE code = "LP28442-8" -> prefix = "LP"
    [] code = "LA6576-8" -> prefix = "LA"
    [] OTHER -> FALSE

\* the number of i with P(s[i])
RECURSIVE CountHits(_, _)
CountHits(toks, frags) ==
  IF toks = <<>> THEN 0
  ELSE (IF Head(toks) \in frags THEN 1 ELSE 0) + CountHits(Tail(toks), frags)

----------------------------------------------------------------------------
(* Configuration.  The breadth controls keep their roles; their values are
   scaled down (200, 1200 and the CLI default 50 in the source). *)

DEFAULT_MAX_VARIANT_RESULTS == 1
GLOBAL_CANDIDATE_CAP == 2
\* the literal 200 of per_variant_cap = min(count_per_variant, max(200, top_k * 8))
PerVariantFloor == 1
\* --count
count_per_variant == 2

\* Bounds of the model: the longest $expand result the service sends, and the
\* range -NegTopK..MaxTopK of --top-k (argparse type=int takes any integer).
MaxContains == 2
MaxTopK == 2
NegTopK == 1

ABBREV_TO_WORDS ==
  [a \in {"BPD", "HC", "AC", "FL", "EFW", "FHR"} |->
     CASE a = "BPD" -> "biparietal diameter"
       [] a = "HC" -> "head circumference"
       [] a = "AC" -> "abdominal circumference"
       [] a = "FL" -> "femur length"
       [] a = "EFW" -> "estimated fetal weight"
       [] a = "FHR" -> "fetal heart rate"]

SOFT_CONTEXT_TOKENS == <<"fetal", "fetus", "ultrasound", "us", "pregnancy", "obstetric">>

\* DEFAULT_TERMS, cut to two of its entries
DEFAULT_TERMS == <<"HC (cm)", "EFW Percentile">>

----------------------------------------------------------------------------
(* Query normalization and intent *)

strip_units(user_term) ==
  CASE user_term = "HC (cm)" -> "HC"
    [] user_term = "EFW (g)" -> "EFW"
    [] OTHER -> user_term

\* base.upper().replace(" ", "")
UpperNoSpace(base) ==
  CASE base = "EFW Percentile" -> "EFWPERCENTILE"
    [] OTHER -> Upper(base)

\* f"{a} ratio {b}" of the two sides of base, each expanded by ABBREV_TO_WORDS
RatioPhrase(base) ==
  CASE base = "FL/AC" -> "femur length ratio abdominal circumference"
    [] OTHER -> base

normalize_user_term(user_term) ==
  LET base == strip_units(user_term) IN
  IF UpperNoSpace(base) \in DOMAIN ABBREV_TO_WORDS THEN ABBREV_TO_WORDS[UpperNoSpace(base)]
  ELSE IF Upper(base) \in DOMAIN ABBREV_TO_WORDS THEN ABBREV_TO_WORDS[Upper(base)]
  ELSE IF LowerHas(base, "/") THEN RatioPhrase(base)
  ELSE base

\* lit in f"{user_term} {normalized}".lower()
TextHas(user_term, normalized, lit) ==
  LowerHas(user_term, lit) \/ LowerHas(normalized, lit)

user_term_implies_numeric(user_term, normalized) ==
  \/ \E u \in {"(cm)", "(mm)", "(g)", "(bpm)"} : LowerHas(user_term, u)
  \/ \E k \in {"length", "diameter", "circumference", "weight", "mass", "rate"} :
       TextHas(user_term, normalized, k)

\* A choice that would test the ratio before the measurement families.
RatioBeforeFamilies(user_term, normalized) ==
  IF TextHas(user_term, normalized, " ratio ") \/ LowerHas(strip_units(user_term), "/")
  THEN {"Rto"}
  ELSE IF TextHas(user_term, normalized, "circumference") THEN {"Circ"}
  ELSE IF TextHas(user_term, normalized, "efw") THEN {"Mass"}
  ELSE None

\* None (unconstrained) is the empty set: the code only tests the set's truth
\* value and membership in it.
expected_properties_for_intent(user_term, normalized) ==
  LET has(k) == TextHas(user_term, normalized, k) IN
  IF has("circumference") THEN {"Circ"}
  ELSE IF has("diameter") \/ has("bpd") THEN {"Diam", "Len"}
  ELSE IF \E k \in {"length", "femur", "humerus", "radius", "ulna", "tibia", "fibula",
                    "long bone"} : has(k) THEN {"Len"}
  ELSE IF has("heart rate") \/ has("fhr") \/ has("rate") THEN {"Rate"}
  ELSE IF \E k \in {"estimated fetal weight", "efw", "weight", "mass"} : has(k) THEN {"Mass"}
  ELSE IF has("cisterna magna") THEN {"Diam", "Len"}
  ELSE IF has("cerebellum") THEN {"Diam", "Len", "Circ"}
  ELSE IF has(" ratio ") \/ LowerHas(strip_units(user_term), "/") THEN {"Rto"}
  ELSE None

_allowances_from_term(user_term) ==
  [allow_derived |-> \/ LowerHas(user_term, "estimated")
                     \/ LowerHas(user_term, "efw")
                     \/ LowerHas(user_term, "estimated fetal weight"),
   allow_percentile |-> LowerHas(user_term, "percentile")]

\* f"{normalized} [Length]"
WithLengthHint(normalized) == normalized \o " [Length]"

is_ratio_intent(user_term, normalized) ==
  TextHas(user_term, normalized, " ratio ") \/ LowerHas(strip_units(user_term), "/")

\* The normalized phrase, with ultrasound context and with bracketed cues
BaseTerms(normalized) ==
  <<normalized, normalized \o " ultrasound", normalized \o " US", WithLengthHint(normalized),
    normalized \o " [Diameter]", normalized \o " [Circumference]", normalized \o " [Mass]",
    normalized \o " [Rate]">>

\* b.title() for the long bones
BoneTitle(b) ==
  CASE b = "femur" -> "Femur"
    [] b = "humerus" -> "Humerus"
    [] b = "radius" -> "Radius"
    [] b = "ulna" -> "Ulna"
    [] b = "tibia" -> "Tibia"
    [] b = "fibula" -> "Fibula"

Bones == <<"femur", "humerus", "radius", "ulna", "tibia", "fibula">>

\* The phrases of the first matching bone of the loop (it breaks on a match)
RECURSIVE BoneVariants(_, _, _)
BoneVariants(user_term, normalized, i) ==
  IF i > Len(Bones) THEN <<>>
  ELSE IF LowerHas(normalized, Bones[i]) \/ LowerHas(user_term, Bones[i])
       THEN <<BoneTitle(Bones[i]) \o " diaphysis fetus [Length] US",
              "Fetal " \o Bones[i] \o " length [Length] US">>
       ELSE BoneVariants(user_term, normalized, i + 1)

\* The family phrases for biparietal diameter, head and abdominal
\* circumference, long bones, cerebellum and cisterna magna
BiometryVariants(user_term, normalized) ==
  (IF LowerHas(normalized, "biparietal diameter") \/ LowerHas(user_term, "bpd")
   THEN <<"Head Diameter.biparietal [Length] fetus US",
          "Head biparietal diameter [Length] fetus US",
          "Fetal head biparietal diameter [Length] US">> ELSE <<>>)
  \o (IF LowerHas(normalized, "head circumference") \/ LowerHas(user_term, "hc")
      THEN <<"Head [Circumference] fetus US">> ELSE <<>>)
  \o (IF LowerHas(normalized, "abdominal circumference") \/ LowerHas(user_term, "ac")
      THEN <<"Abdomen [Circumference] fetus US", "Abdominal circumference fetus US">>
      ELSE <<>>)
  \o BoneVariants(user_term, normalized, 1)
  \o (IF LowerHas(normalized, "cerebellum")
      THEN <<"Cerebellum fetus [Diameter] US", "Cerebellum Diameter transverse fetus US">>
      ELSE <<>>)
  \o (IF LowerHas(normalized, "cisterna magna")
      THEN <<"Cisterna magna fetus [Diameter] US",
             "Fetal cisterna magna sagittal diameter US">> ELSE <<>>)

\* The family phrases for estimated fetal weight and fetal heart rate
WeightAndRateVariants(user_term, normalized) ==
  (IF LowerHas(normalized, "estimated fetal weight") \/ LowerHas(user_term, "efw")
   THEN <<"Estimated fetal weight [Mass] US", "Fetal body weight [Mass] US",
          "Fetus body weight [Mass] US", "EFW [Mass] US">> ELSE <<>>)
  \o (IF LowerHas(normalized, "fetal heart rate") \/ LowerHas(user_term, "fhr")
      THEN <<"Fetal heart rate [Rate] US", "Fetal heart rate US",
             "Fetal heart rate by auscultation", "Fetal heart rate mean 10 minutes",
             "Fetal heart rate reactivity">> ELSE <<>>)

_loincish_variants_for_family(user_term, normalized) ==
  BiometryVariants(user_term, normalized) \o WeightAndRateVariants(user_term, normalized)

\* qual_map, in the order of its keys
QualitativeKeys ==
  <<"placenta appearance", "heart abnormal", "head abnormal", "face/neck abnormal",
    "spine abnormal", "genitalia normal">>

QualitativePhrases(k) ==
  CASE k = "placenta appearance" ->
         <<"Placenta morphology [Text] US", "Placenta abnormality [Presence] fetus US">>
    [] k = "heart abnormal" ->
         <<"Cardiac abnormality [Presence] fetus US", "Heart anomaly [Presence] fetus US">>
    [] k = "head abnormal" ->
         <<"Head abnormality [Presence] fetus US", "Cranial abnormality [Presence] fetus US">>
    [] k = "face/neck abnormal" ->
         <<"Face abnormality [Presence] fetus US", "Neck abnormality [Presence] fetus US",
           "Facial anomaly [Presence] fetus">>
    [] k = "spine abnormal" ->
         <<"Spinal abnormality [Presence] fetus US", "Spine anomaly [Presence] fetus">>
    [] k = "genitalia normal" ->
         <<"Genitalia normal [Presence] fetus", "Genitalia abnormality [Presence] fetus">>

RECURSIVE QualitativeFrom(_, _)
QualitativeFrom(user_term, i) ==
  IF i > Len(QualitativeKeys) THEN <<>>
  ELSE (IF LowerHas(user_term, QualitativeKeys[i]) THEN QualitativePhrases(QualitativeKeys[i])
        ELSE <<>>) \o QualitativeFrom(user_term, i + 1)

_qualitative_variants(user_term) == QualitativeFrom(user_term, 1)

\* normalized.lower().split(" ratio ")
SplitAtRatio(normalized) ==
  CASE normalized = "femur length ratio abdominal circumference" ->
         <<"femur length", "abdominal circumference">>
    [] OTHER -> <<Lower(normalized)>>

\* [p.strip() for p in base.split("/")]
SplitAtSlash(base) ==
  CASE base = "FL/AC" -> <<"FL", "AC">>
    [] OTHER -> <<base>>

\* s.title()
Title(s) ==
  CASE s = "femur length" -> "Femur Length"
    [] s = "abdominal circumference" -> "Abdominal Circumference"
    [] OTHER -> s

\* ABBREV_TO_WORDS.get(raw.upper(), raw).lower()
ExpandedLower(raw) ==
  Lower(IF Upper(raw) \in DOMAIN ABBREV_TO_WORDS THEN ABBREV_TO_WORDS[Upper(raw)] ELSE raw)

\* The two sides (a, b) of the ratio, or the empty sequence when there are none
RatioSides(user_term, normalized) ==
  IF LowerHas(normalized, " ratio ")
  THEN (IF Len(SplitAtRatio(normalized)) = 2 THEN SplitAtRatio(normalized) ELSE <<>>)
  ELSE LET raw == SplitAtSlash(strip_units(user_term))
       IN IF Len(raw) = 2 THEN <<ExpandedLower(raw[1]), ExpandedLower(raw[2])>> ELSE <<>>

\* The spelled-out ratio phrases and the literal term; with_over is the one
\* phrase that only loinc_lookup.py adds.
RatioPhrases(user_term, normalized, with_over) ==
  LET sides == RatioSides(user_term, normalized) IN
  IF ~is_ratio_intent(user_term, normalized) \/ sides = <<>> \/ "" \in {sides[i] : i \in DOMAIN sides}
  THEN <<>>
  ELSE LET a == sides[1]
           b == sides[2]
           raw_lit == strip_units(user_term)
       IN <<a \o "/" \o b, a \o "/" \o b \o " ratio", a \o " to " \o b \o " ratio",
            "ratio of " \o a \o " to " \o b, a \o " divided by " \o b>>
          \o (IF with_over THEN <<a \o " over " \o b>> ELSE <<>>)
          \o <<Title(a) \o " / " \o Title(b) \o " derived by US",
               Title(a) \o " / " \o Title(b) \o " derived by ultrasound",
               raw_lit, Upper(raw_lit)>>

_ratio_variants(user_term, normalized) == RatioPhrases(user_term, normalized, FALSE)

\* HARD_HINTS.get(key, [])
HARD_HINTS(key) ==
  CASE key = "hc/ac" ->
         <<"Head circumference/Abdominal circumference derived by US",
           "Head circumference/Abdominal circumference derived by ultrasound">>
    [] key = "fl/ac" ->
         <<"Femur length/Abdominal circumference derived by US",
           "Femur length/Abdominal circumference derived by ultrasound">>
    [] key = "fl/bpd" ->
         <<"Femur length/Biparietal diameter derived by US",
           "Femur length/Biparietal diameter derived by ultrasound">>
    [] key = "efw" ->
         <<"Estimated fetal weight [Mass] US", "Fetal body weight [Mass] US",
           "Fetus body weight [Mass] US", "EFW [Mass] US">>
    [] key = "placenta appearance" ->
         <<"Placenta morphology [Text] US", "Placenta structure [Presence] fetus US",
           "Placenta abnormality [Presence] fetus US">>
    [] key \in {"heart abnormal", "head abnormal", "face/neck abnormal", "spine abnormal",
                "genitalia normal"} -> QualitativePhrases(key)
    [] OTHER -> <<>>

\* key.replace(" ", "")
Compact(key) ==
  CASE key = "efw percentile" -> "efwpercentile"
    [] OTHER -> key

_inject_hard_hints(user_term) ==
  LET key == Lower(strip_units(user_term))
  IN HARD_HINTS(key) \o HARD_HINTS(Compact(key))

\* The list before deduplication, in the order in which each program appends
\* to it: loinc_lookup.py puts the ratio phrases between the two groups of
\* family phrases, and the qualitative phrases after them.
VariantTerms(of_lookup, user_term, normalized) ==
  IF of_lookup
  THEN BaseTerms(normalized) \o BiometryVariants(user_term, normalized)
       \o RatioPhrases(user_term, normalized, TRUE)
       \o WeightAndRateVariants(user_term, normalized)
       \o _qualitative_variants(user_term) \o _inject_hard_hints(user_term)
  ELSE BaseTerms(normalized) \o _loincish_variants_for_family(user_term, normalized)
       \o _qualitative_variants(user_term) \o _ratio_variants(user_term, normalized)
       \o _inject_hard_hints(user_term)

\* The list as it was built, duplicates included.
Undeduplicated(terms) == terms

\* The loop over terms with the set of strings seen so far
RECURSIVE Dedup(_)
Dedup(terms) ==
  IF terms = <<>> THEN <<>>
  ELSE LET uniq == Dedup(SubSeq(terms, 1, Len(terms) - 1))
           t == terms[Len(terms)]
       IN IF t \in {uniq[i] : i \in DOMAIN uniq} THEN uniq ELSE Append(uniq, t)

build_text_variants(user_term, normalized) == Dedup(VariantTerms(FALSE, user_term, normalized))

\* build_text_variants of loinc_lookup.py
LookupBuildTextVariants(user_term, normalized) == Dedup(VariantTerms(TRUE, user_term, normalized))

\* Of the variants of the list, the model queries the first (the normalized
\* phrase) and the fourth (the first one with a bracketed cue).
Queried(all_variants) == <<all_variants[1], all_variants[4]>>

\* _fallback_variant on a filter given as its characters.

\* [(),.:;]
Punctuation == {"(", ")", ",", ".", ":", ";"}

\* the position of the first "]" of s at or after i, or 0
RECURSIVE FirstClose(_, _)
FirstClose(s, i) ==
  IF i > Len(s) THEN 0 ELSE IF s[i] = "]" THEN i ELSE FirstClose(s, i + 1)

\* re.sub(r"\[[^\]]+\]", "", text_filter): leftmost matches, at least one
\* character between the brackets
RECURSIVE RemoveBracketed(_)
RemoveBracketed(s) ==
  IF s = <<>> THEN <<>>
  ELSE LET close == FirstClose(s, 2) IN
       IF Head(s) = "[" /\ close >= 3 THEN RemoveBracketed(SubSeq(s, close + 1, Len(s)))
       ELSE <<Head(s)>> \o RemoveBracketed(Tail(s))

\* re.sub(r"[(),.:;]", " ", v2)
SpacePunctuation(s) == [i \in DOMAIN s |-> IF s[i] \in Punctuation THEN " " ELSE s[i]]

\* re.sub(r"\s+", " ", v2)
RECURSIVE CollapseSpaces(_)
CollapseSpaces(s) ==
  IF s = <<>> THEN <<>>
  ELSE IF Head(s) = " " /\ Len(s) >= 2 /\ s[2] = " " THEN CollapseSpaces(Tail(s))
  ELSE <<Head(s)>> \o CollapseSpaces(Tail(s))

\* str.strip()
RECURSIVE Strip(_)
Strip(s) ==
  IF s = <<>> THEN s
  ELSE IF Head(s) = " " THEN Strip(Tail(s))
  ELSE IF s[Len(s)] = " " THEN Strip(SubSeq(s, 1, Len(s) - 1))
  ELSE s

\* Faulty variant: no test of the length
FallbackOfAnyLength(text_filter) ==
  LET v2 == Strip(CollapseSpaces(SpacePunctuation(RemoveBracketed(text_filter))))
  IN IF v2 # text_filter THEN Some(v2) ELSE None

FallbackOfChars(text_filter) ==
  LET v2 == Strip(CollapseSpaces(SpacePunctuation(RemoveBracketed(text_filter))))
  IN IF Len(v2) >= 3 /\ v2 # text_filter THEN Some(v2) ELSE None

\* if fb:
Truthy(fb) == fb # None /\ The(fb) # <<>>

\* The loosened filter, or None when it is shorter than 3 or the same string.
_fallback_variant(text_filter) ==
  CASE text_filter = "head circumference [Length]" -> Some("head circumference")
    [] text_filter = "EFW Percentile [Length]" -> Some("EFW Percentile")
    [] text_filter = "Presentation [Length]" -> Some("Presentation")
    [] text_filter = "estimated fetal weight [Length]" -> Some("estimated fetal weight")
    [] text_filter = "femur length ratio abdominal circumference [Length]" ->
         Some("femur length ratio abdominal circumference")
    [] OTHER -> None

----------------------------------------------------------------------------
(* The terminology service: what $lookup answers for each code. *)

Codes == {"11984-2", "11851-3", "11820-8", "33073-3", "LP28442-8", "LA6576-8", "11819-0"}

ObUsCirc == [PROPERTY |-> "Circ", SCALE_TYP |-> "Qn", CLASS |-> "OB.US", SYSTEM |-> "Head"]

\* lookup_loinc_details: {"code": code} updated with the parsed parameters
LookupDetails(code) ==
  CASE code = "11984-2" ->
         [code |-> code, display |-> "Fetal Head Circumference US", status |-> "ACTIVE",
          properties |-> ObUsCirc]
    [] code = "11851-3" ->
         [code |-> code, display |-> "Head Circumference Fetal US", status |-> "ACTIVE",
          properties |-> ObUsCirc]
    [] code = "11820-8" ->
         [code |-> code, display |-> "Fetal Head Circumference US estimated from AC",
          status |-> "ACTIVE", properties |-> ObUsCirc]
    [] code = "33073-3" ->
         [code |-> code, display |-> "Fetal Head Circumference percentile", status |-> "ACTIVE",
          properties |-> [PROPERTY |-> "Prctl", SCALE_TYP |-> "Qn", CLASS |-> "OB.US",
                          SYSTEM |-> "Head"]]
    [] code = "11979-2" ->
         [code |-> code, display |-> "Abdominal circumference", status |-> "ACTIVE",
          properties |-> [PROPERTY |-> "Circ", SCALE_TYP |-> "Qn"]]
    [] code = "LP28442-8" ->
         [code |-> code, display |-> "Head circumference", status |-> "ACTIVE"]
    [] code = "LA6576-8" ->
         [code |-> code, display |-> "Cephalic presentation", status |-> "ACTIVE"]
    [] code = "11819-0" ->
         [code |-> code, display |-> "Fetal Head Circumference US", status |-> "DEPRECATED",
          properties |-> ObUsCirc]

\* The display $expand lists for a code
ExpandDisplay(code) == LookupDetails(code).display

----------------------------------------------------------------------------
(* Flags and scoring *)

is_loinc_part(code) == code # "" /\ StartsWith(code, "LP")

is_loinc_answer_list(code) == code # "" /\ StartsWith(code, "LA")

\* status is optional, display a string
is_deprecated(status, display) ==
  \/ (status # None /\ The(status) # "" /\ Upper(The(status)) = "DEPRECATED")
  \/ (display # "" /\ LowerHas(display, "deprecated"))

looks_derived_or_methodized(display) ==
  /\ display # ""
  /\ \/ LowerHas(display, "estimated from")
     \/ (LowerHas(display, " by ") /\ LowerHas(display, " method"))
     \/ \E x \in {"hadlock", "jeanty", "merz", "ott", "goldstein"} : LowerHas(display, x)
     \/ \E x \in {"amniocentesis", "lmp", "menstrual period"} : LowerHas(display, x)

mentions_percentile(display) == display # "" /\ LowerHas(display, "percentile")

mentions_laterality(display) ==
  /\ display # ""
  /\ \E w \in {" left ", " right ", " left]", " right]", "left ", "right "} :
       LowerHas(display, w)

\* details.get("properties", {}) if "properties" in details else {}
EmptyDict == [k \in {} |-> k]
PropsOf(details) == IF "properties" \in DOMAIN details THEN details.properties ELSE EmptyDict

\* (x or "").strip(), x optional
_norm_str(x) ==
  CASE x = Some(" Qn ") -> "Qn"
    [] x = Some("Circ ") -> "Circ"
    [] OTHER -> OrEmpty(x)

compute_feature_flags(details, numeric_expected, expected_props) ==
  LET disp == OrEmpty(Get(details, "display"))
      status == Get(details, "status")
      props == PropsOf(details)
      code == OrEmpty(Get(details, "code"))
      scale == _norm_str(Get(props, "SCALE_TYP"))
      prop_kind == _norm_str(Get(props, "PROPERTY"))
      expected_norm == {_norm_str(Some(q)) : q \in expected_props}
  IN [is_part |-> is_loinc_part(code),
      is_answer_list |-> is_loinc_answer_list(code),
      is_deprecated |-> is_deprecated(status, disp),
      is_derived |-> looks_derived_or_methodized(disp),
      is_percentile |-> mentions_percentile(disp),
      has_laterality |-> mentions_laterality(disp),
      property_match |-> (expected_norm = {}) \/ (prop_kind \in expected_norm),
      scale_match |-> (~numeric_expected) \/ (Upper(scale) = "QN")]

prefilter_score_for_variant(display, variant_text) ==
  2 * CountHits(SOFT_CONTEXT_TOKENS, Fragments(display))
  + CountHits(Tokens(variant_text), Fragments(display))

_score_property_scale(props, expected_props, numeric_expected) ==
  (IF expected_props # {} /\ Get(props, "PROPERTY") # None
      /\ The(Get(props, "PROPERTY")) \in expected_props THEN 12 ELSE 0)
  + (IF numeric_expected /\ Get(props, "SCALE_TYP") = Some("Qn") THEN 6 ELSE 0)
  + (IF Get(props, "SCALE_TYP") = Some("Qn") THEN 2 ELSE 0)

\* disp is the display in lower case: the model passes the display and the
\* tests read its lower-case fragments.
_score_context(props, disp) ==
  LET cls == OrEmpty(Get(props, "CLASS"))
      system == OrEmpty(Get(props, "SYSTEM"))
      sys_core == OrEmpty(Get(props, "system-core"))
      super_sys == OrEmpty(Get(props, "super-system"))
  IN (IF \/ LowerHas(cls, "us") \/ LowerHas(cls, "ob")
         \/ LowerHas(disp, "ultrasound") \/ LowerHas(disp, " us") THEN 3 ELSE 0)
     + (IF \/ LowerHas(disp, "fetal") \/ LowerHas(disp, "fetus")
           \/ Lower(super_sys) = "fetus"
           \/ LowerHas(sys_core, "fetus") \/ LowerHas(system, "fetus") THEN 2 ELSE 0)

\* Faulty variant: the penalty of a derived display does not depend on allow_derived
PenaltiesUnconditional(flags, allow_derived, allow_percentile, want_laterality) ==
  (IF flags.is_derived THEN -10 ELSE 0)
  + (IF ~allow_percentile /\ flags.is_percentile THEN -8
     ELSE IF allow_percentile /\ flags.is_percentile THEN -2 ELSE 0)
  + (IF flags.has_laterality /\ ~want_laterality THEN -3 ELSE 0)

_score_penalties(flags, allow_derived, allow_percentile, want_laterality) ==
  (IF ~allow_derived /\ flags.is_derived THEN -10
   ELSE IF allow_derived /\ flags.is_derived THEN -4 ELSE 0)
  + (IF ~allow_percentile /\ flags.is_percentile THEN -8
     ELSE IF allow_percentile /\ flags.is_percentile THEN -2 ELSE 0)
  + (IF flags.has_laterality /\ ~want_laterality THEN -3 ELSE 0)

_score_misc(details, disp, normalized, numeric_expected, props) ==
  LET code == OrEmpty(Get(details, "code")) IN
  (IF numeric_expected /\ (Get(props, "SCALE_TYP") \in {Some("Ord"), Some("Nar")}
                           \/ LowerHas(disp, "narrative")) THEN -4 ELSE 0)
  + CountHits(Tokens(normalized), Fragments(disp))
  + (IF ~(StartsWith(code, "LP") \/ StartsWith(code, "LA")) THEN 1 ELSE 0)
  + (IF ~is_deprecated(Some(OrEmpty(Get(details, "status"))),
                       OrEmpty(Get(details, "display"))) THEN 1 ELSE 0)

final_score(details, user_term, normalized, flags, allow_derived, allow_percentile, numeric_expected, expected_props) ==
  LET disp == OrEmpty(Get(details, "display"))
      props == PropsOf(details)
      want_laterality == LowerHas(user_term, "left") \/ LowerHas(user_term, "right")
  IN _score_property_scale(props, expected_props, numeric_expected)
     + _score_context(props, disp)
     + _score_penalties(flags, allow_derived, allow_percentile, want_laterality)
     + _score_misc(details, disp, normalized, numeric_expected, props)

\* final_score of loinc_lookup.py, one function
LookupFinalScore(details, user_term, normalized, flags, allow_derived, allow_percentile, numeric_expected, expected_props) ==
  LET disp == OrEmpty(Get(details, "display"))
      props == PropsOf(details)
      cls == OrEmpty(Get(props, "CLASS"))
      system == OrEmpty(Get(props, "SYSTEM"))
      sys_core == OrEmpty(Get(props, "system-core"))
      super_sys == OrEmpty(Get(props, "super-system"))
      status == OrEmpty(Get(details, "status"))
      want_laterality == LowerHas(user_term, "left") \/ LowerHas(user_term, "right")
      code == OrEmpty(Get(details, "code"))
  IN (IF expected_props # {} /\ Get(props, "PROPERTY") # None
         /\ The(Get(props, "PROPERTY")) \in expected_props THEN 12 ELSE 0)
     + (IF numeric_expected /\ Get(props, "SCALE_TYP") = Some("Qn") THEN 6 ELSE 0)
     + (IF Get(props, "SCALE_TYP") = Some("Qn") THEN 2 ELSE 0)
     + (IF \/ LowerHas(cls, "us") \/ LowerHas(cls, "ob")
           \/ LowerHas(disp, "ultrasound") \/ LowerHas(disp, " us") THEN 3 ELSE 0)
     + (IF \/ LowerHas(disp, "fetal") \/ LowerHas(disp, "fetus")
           \/ Lower(super_sys) = "fetus"
           \/ LowerHas(sys_core, "fetus") \/ LowerHas(system, "fetus") THEN 2 ELSE 0)
     + (IF ~allow_derived /\ flags.is_derived THEN -10 ELSE 0)
     + (IF allow_derived /\ flags.is_derived THEN -4 ELSE 0)
     + (IF ~allow_percentile /\ flags.is_percentile THEN -8 ELSE 0)
     + (IF allow_percentile /\ flags.is_percentile THEN -2 ELSE 0)
     + (IF flags.has_laterality /\ ~want_laterality THEN -3 ELSE 0)
     + (IF numeric_expected /\ (Get(props, "SCALE_TYP") \in {Some("Ord"), Some("Nar")}
                                \/ LowerHas(disp, "narrative")) THEN -4 ELSE 0)
     + CountHits(Tokens(normalized), Fragments(disp))
     + (IF ~(StartsWith(code, "LP") \/ StartsWith(code, "LA")) THEN 1 ELSE 0)
     + (IF ~is_deprecated(Some(status), OrEmpty(Get(details, "display"))) THEN 1 ELSE 0)

----------------------------------------------------------------------------
(* Filtering and ranking *)

_sort_key_for_rank(x) ==
  LET f == x._flags IN
  <<x._score,
    IF f.property_match THEN 1 ELSE 0,
    IF f.scale_match THEN 1 ELSE 0,
    IF f.is_derived THEN 0 ELSE 1,
    IF f.is_percentile THEN 0 ELSE 1>>

\* Python's order on tuples of equal length
RECURSIVE TupleLess(_, _)
TupleLess(a, b) ==
  IF a = <<>> THEN FALSE
  ELSE IF Head(a) # Head(b) THEN Head(a) < Head(b)
  ELSE TupleLess(Tail(a), Tail(b))

\* sorted(..., reverse=True) and list.sort(reverse=True) are descending and
\* stable: an item goes behind the items with a larger or an equal key that
\* came before it.  The items are records [key, item], key a tuple.
RECURSIVE InsertDescending(_, _)
InsertDescending(sorted, x) ==
  IF sorted = <<>> THEN <<x>>
  ELSE IF TupleLess(Head(sorted).key, x.key) THEN <<x>> \o sorted
  ELSE <<Head(sorted)>> \o InsertDescending(Tail(sorted), x)

RECURSIVE SortedDescending(_)
SortedDescending(keyed) ==
  IF keyed = <<>> THEN <<>>
  ELSE InsertDescending(SortedDescending(SubSeq(keyed, 1, Len(keyed) - 1)),
                        keyed[Len(keyed)])

RECURSIVE Items(_)
Items(keyed) == IF keyed = <<>> THEN <<>> ELSE <<Head(keyed).item>> \o Items(Tail(keyed))

RECURSIVE WithRankKey(_)
WithRankKey(rows) ==
  IF rows = <<>> THEN <<>>
  ELSE <<[key |-> _sort_key_for_rank(Head(rows)), item |-> Head(rows)]>>
       \o WithRankKey(Tail(rows))

\* Faulty variant: the accepted rows are left in the order of enrichment
Unsorted(rows) == rows

\* accepted.sort(key=_sort_key_for_rank, reverse=True)
SortRanked(rows) == Items(SortedDescending(WithRankKey(rows)))

\* Faulty variant: answer lists are not dropped
HardDroppedPartsOnly(flags) == flags.is_part \/ flags.is_deprecated

\* The hard drops common to both modes
HardDropped(flags) == flags.is_part \/ flags.is_answer_list \/ flags.is_deprecated

\* Faulty variant: strict mode without the derived and percentile gates
StrictDroppedByMismatch(flags, numeric_expected, expected_props, allow_derived, allow_percentile) ==
  \/ (numeric_expected /\ ~flags.scale_match)
  \/ (numeric_expected /\ expected_props # {} /\ ~flags.property_match)

\* Strict mode without the scale and property gates
StrictDroppedByDisplay(flags, numeric_expected, expected_props, allow_derived, allow_percentile) ==
  \/ (~allow_derived /\ flags.is_derived)
  \/ (~allow_percentile /\ flags.is_percentile)

\* The gates of strict mode
StrictDropped(flags, numeric_expected, expected_props, allow_derived, allow_percentile) ==
  \/ (~allow_derived /\ flags.is_derived)
  \/ (~allow_percentile /\ flags.is_percentile)
  \/ (numeric_expected /\ ~flags.scale_match)
  \/ (numeric_expected /\ expected_props # {} /\ ~flags.property_match)

\* Faulty variant: the three fields are set on the record itself
AnnotateInPlace(d, flags, s, stage) ==
  LET row == [_flags |-> flags, _score |-> s, _stage |-> stage] @@ d IN [row |-> row, d |-> row]

\* row = dict(d); row["_flags"] = flags; row["_score"] = s; row["_stage"] = ...:
\* the row, and the record d after the four statements
Annotate(d, flags, s, stage) ==
  [row |-> [_flags |-> flags, _score |-> s, _stage |-> stage] @@ d, d |-> d]

\* row = dict(d) with _flags, _score and _stage
AnnotatedRow(d, user_term, normalized, numeric_expected, expected_props, strict, allow_derived, allow_percentile) ==
  LET flags == compute_feature_flags(d, numeric_expected, expected_props) IN
  Annotate(d, flags,
           final_score(d, user_term, normalized, flags, allow_derived, allow_percentile,
                       numeric_expected, expected_props),
           IF strict THEN "strict" ELSE "relaxed").row

\* the list enriched after a call of filter_and_rank
RECURSIVE EnrichedAfter(_, _, _, _, _, _, _, _)
EnrichedAfter(enriched, user_term, normalized, numeric_expected, expected_props, strict, allow_derived, allow_percentile) ==
  IF enriched = <<>> THEN <<>>
  ELSE LET d == Head(enriched)
           flags == compute_feature_flags(d, numeric_expected, expected_props)
           rest == EnrichedAfter(Tail(enriched), user_term, normalized, numeric_expected,
                                 expected_props, strict, allow_derived, allow_percentile)
       IN IF HardDropped(flags) THEN <<d>> \o rest
          ELSE IF strict /\ StrictDropped(flags, numeric_expected, expected_props,
                                          allow_derived, allow_percentile) THEN <<d>> \o rest
          ELSE <<Annotate(d, flags,
                          final_score(d, user_term, normalized, flags, allow_derived,
                                      allow_percentile, numeric_expected, expected_props),
                          IF strict THEN "strict" ELSE "relaxed").d>> \o rest

RECURSIVE Accepted(_, _, _, _, _, _, _, _)
Accepted(enriched, user_term, normalized, numeric_expected, expected_props, strict, allow_derived, allow_percentile) ==
  IF enriched = <<>> THEN <<>>
  ELSE LET d == Head(enriched)
           flags == compute_feature_flags(d, numeric_expected, expected_props)
           rest == Accepted(Tail(enriched), user_term, normalized, numeric_expected,
                            expected_props, strict, allow_derived, allow_percentile)
       IN IF HardDropped(flags) THEN rest
          ELSE IF strict /\ StrictDropped(flags, numeric_expected, expected_props,
                                          allow_derived, allow_percentile) THEN rest
          ELSE <<AnnotatedRow(d, user_term, normalized, numeric_expected, expected_props,
                              strict, allow_derived, allow_percentile)>> \o rest

filter_and_rank(enriched, user_term, normalized, numeric_expected, expected_props, strict, allow_derived, allow_percentile) ==
  SortRanked(Accepted(enriched, user_term, normalized, numeric_expected, expected_props,
                      strict, allow_derived, allow_percentile))

----------------------------------------------------------------------------
(* Strict pass, then relaxed fill *)

CodesOf(rows) == {rows[i].code : i \in 1..Len(rows)}

\* Faulty variant: the relaxed fill without the membership test
NotYetChosenUntested(row, have) == TRUE

\* row["code"] not in have
NotYetChosen(row, have) == row.code \notin have

\* Faulty variant: the relaxed fill gives up after the first row it adds
FillRelaxedOnce(chosen, relaxed_ranked, top_k, have, refresh) ==
  IF relaxed_ranked = <<>> \/ Len(chosen) >= top_k THEN chosen
  ELSE LET fresh == SelectSeq(relaxed_ranked, LAMBDA row : NotYetChosen(row, have))
       IN IF fresh = <<>> THEN chosen ELSE Append(chosen, Head(fresh))

\* for row in relaxed_ranked: stop at top_k, append the rows not yet chosen.
\* remote computes have once, before the loop; lookup computes the set of
\* chosen codes again for every row (refresh).
RECURSIVE FillRelaxed(_, _, _, _, _)
FillRelaxed(chosen, relaxed_ranked, top_k, have, refresh) ==
  IF relaxed_ranked = <<>> \/ Len(chosen) >= top_k THEN chosen
  ELSE LET row == Head(relaxed_ranked)
           seen == IF refresh THEN CodesOf(chosen) ELSE have
       IN FillRelaxed(IF NotYetChosen(row, seen) THEN Append(chosen, row) ELSE chosen,
                      Tail(relaxed_ranked), top_k, have, refresh)

\* Faulty variant: the selection is sorted again after the relaxed fill
StrictThenRelaxedResorted(refresh, enriched, user_term, normalized, numeric_expected, expected_props, top_k, allow_derived, allow_percentile) ==
  LET chosen == Slice(filter_and_rank(enriched, user_term, normalized, numeric_expected,
                                      expected_props, TRUE, allow_derived, allow_percentile),
                      top_k)
  IN IF Len(chosen) < top_k
     THEN SortRanked(FillRelaxed(chosen,
                                 filter_and_rank(enriched, user_term, normalized,
                                                 numeric_expected, expected_props, FALSE,
                                                 TRUE, TRUE),
                                 top_k, CodesOf(chosen), refresh))
     ELSE chosen

StrictThenRelaxed(refresh, enriched, user_term, normalized, numeric_expected, expected_props, top_k, allow_derived, allow_percentile) ==
  LET chosen == Slice(filter_and_rank(enriched, user_term, normalized, numeric_expected,
                                      expected_props, TRUE, allow_derived, allow_percentile),
                      top_k)
  IN IF Len(chosen) < top_k
     THEN FillRelaxed(chosen,
                      filter_and_rank(enriched, user_term, normalized, numeric_expected,
                                      expected_props, FALSE, TRUE, TRUE),
                      top_k, CodesOf(chosen), refresh)
     ELSE chosen

_strict_then_relaxed(enriched, user_term, normalized, numeric_expected, expected_props, top_k, allow_derived, allow_percentile) ==
  StrictThenRelaxed(FALSE, enriched, user_term, normalized, numeric_expected, expected_props,
                    top_k, allow_derived, allow_percentile)

----------------------------------------------------------------------------
(* Row builders.  A row keeps the columns that are not constant over the
   model's details; every column that can be None is an optional value. *)

NoCandidatesError == "No candidates returned"
NoMatchError == "No acceptable matches after filtering"

FlagNames == {"is_part", "is_answer_list", "is_deprecated", "is_derived", "is_percentile",
              "has_laterality", "property_match", "scale_match"}

\* A sentinel that would carry a rank, as a ranked row does.
RankedSentinel(user_term, normalized, error) ==
  [search_term |-> user_term, normalized_query |-> normalized, rank |-> Some(1),
   loinc_code |-> None, display |-> None, definition |-> None, status |-> None,
   class |-> None, system |-> None, property |-> None, scale |-> None,
   flags |-> [f \in FlagNames |-> None],
   stage |-> None, score |-> None, error |-> Some(error)]

_empty_best_row(user_term, normalized, error) ==
  [search_term |-> user_term, normalized_query |-> normalized, rank |-> None,
   loinc_code |-> None, display |-> None, definition |-> None, status |-> None,
   class |-> None, system |-> None, property |-> None, scale |-> None,
   flags |-> [f \in FlagNames |-> None],
   stage |-> None, score |-> None, error |-> Some(error)]

_best_rows_from_ranked(chosen, user_term, normalized) ==
  [rank_idx \in 1..Len(chosen) |->
     LET row == chosen[rank_idx]
         props == PropsOf(row)
         flags == row._flags
     IN [search_term |-> user_term, normalized_query |-> normalized,
         rank |-> Some(rank_idx),
         loinc_code |-> Get(row, "code"), display |-> Get(row, "display"),
         definition |-> Get(row, "definition"), status |-> Get(row, "status"),
         class |-> Get(props, "CLASS"), system |-> Get(props, "SYSTEM"),
         property |-> Get(props, "PROPERTY"), scale |-> Get(props, "SCALE_TYP"),
         flags |-> [f \in FlagNames |-> Get(flags, f)],
         stage |-> Get(row, "_stage"), score |-> Get(row, "_score"), error |-> None]]

\* Faulty variant: audit rows only for the candidates that pass the hard drops
AuditRowsOfReportable(enriched, user_term, normalized, numeric_expected, expected_props, allow_derived, allow_percentile) ==
  LET kept == SelectSeq(enriched,
                        LAMBDA d : ~HardDropped(compute_feature_flags(d, numeric_expected,
                                                                      expected_props)))
  IN [i \in 1..Len(kept) |->
        LET d == kept[i]
            flags == compute_feature_flags(d, numeric_expected, expected_props)
        IN [search_term |-> user_term, loinc_code |-> Get(d, "code"), flags |-> flags,
            score_strict |-> final_score(d, user_term, normalized, flags, allow_derived,
                                         allow_percentile, numeric_expected, expected_props),
            score_relaxed |-> final_score(d, user_term, normalized, flags, TRUE, TRUE, FALSE,
                                          expected_props)]]

_all_candidates_rows(enriched, user_term, normalized, numeric_expected, expected_props, allow_derived, allow_percentile) ==
  [i \in 1..Len(enriched) |->
     LET d == enriched[i]
         flags == compute_feature_flags(d, numeric_expected, expected_props)
     IN [search_term |-> user_term, loinc_code |-> Get(d, "code"), flags |-> flags,
         score_strict |-> final_score(d, user_term, normalized, flags, allow_derived,
                                      allow_percentile, numeric_expected, expected_props),
         score_relaxed |-> final_score(d, user_term, normalized, flags, TRUE, TRUE, FALSE,
                                       expected_props)]]

----------------------------------------------------------------------------
(* Candidate collection *)

\* sequences of distinct elements of S, of length at most n
DistinctSeqs(S, n) ==
  {q \in UNION {[1..k -> S] : k \in 0..n} : \A i, j \in 1..Len(q) : i # j => q[i] # q[j]}

\* What one $expand call can answer: the "contains" entries of an expansion
Contains == {[i \in 1..Len(q) |-> [code |-> q[i], display |-> ExpandDisplay(q[i])]] :
               q \in DistinctSeqs(Codes, MaxContains)}

\* How a call of http_get_json ends: the parsed payload, or
\*   unauthorized  RuntimeError (status 401)
\*   http_error    requests.HTTPError (raise_for_status, also after the retries)
\*   conn_error    requests.ConnectionError or Timeout (session.get)
\*   bad_json      ValueError (resp.json())
Failures == {"unauthorized", "http_error", "conn_error", "bad_json"}

\* Faulty variant: the handler of remote without ValueError
CaughtRequestErrorsOnly(module, failure) ==
  IF module = "lookup" THEN TRUE
  ELSE failure \in {"http_error", "conn_error"}

\* except (requests.RequestException, ValueError[, KeyError]) in remote;
\* except Exception in lookup
Caught(module, failure) ==
  IF module = "lookup" THEN TRUE
  ELSE failure \in {"http_error", "conn_error", "bad_json"}

\* Faulty variant: the entry of a code already in raw is replaced
RECURSIVE MergeLastSeen(_, _, _)
MergeLastSeen(raw, contains, stop_at_cap) ==
  IF contains = <<>> THEN raw
  ELSE LET c == Head(contains)
           entry == [code |-> c.code, display |-> c.display]
       IN IF c.code = "" THEN MergeLastSeen(raw, Tail(contains), stop_at_cap)
          ELSE IF c.code \in CodesOf(raw)
          THEN MergeLastSeen([i \in DOMAIN raw |-> IF raw[i].code = c.code THEN entry ELSE raw[i]],
                             Tail(contains), stop_at_cap)
          ELSE IF stop_at_cap /\ Len(raw) + 1 >= GLOBAL_CANDIDATE_CAP THEN Append(raw, entry)
          ELSE MergeLastSeen(Append(raw, entry), Tail(contains), stop_at_cap)

\* for c in contains: skip an entry without code or with a code already in raw;
\* stop_at_cap is the break of remote at GLOBAL_CANDIDATE_CAP
RECURSIVE MergeInto(_, _, _)
MergeInto(raw, contains, stop_at_cap) ==
  IF contains = <<>> THEN raw
  ELSE LET c == Head(contains) IN
       IF c.code = "" \/ c.code \in CodesOf(raw) THEN MergeInto(raw, Tail(contains), stop_at_cap)
       ELSE LET grown == Append(raw, [code |-> c.code, display |-> c.display]) IN
            IF stop_at_cap /\ Len(grown) >= GLOBAL_CANDIDATE_CAP THEN grown
            ELSE MergeInto(grown, Tail(contains), stop_at_cap)

\* key=lambda c: prefilter_score_for_variant(c.get("display", ""), text); remote
\* passes the display itself as text, lookup passes the variant v
RECURSIVE WithPrefilterKey(_, _, _)
WithPrefilterKey(contains, v, against_display) ==
  IF contains = <<>> THEN <<>>
  ELSE LET c == Head(contains)
           text == IF against_display THEN c.display ELSE v
       IN <<[key |-> <<prefilter_score_for_variant(c.display, text)>>, item |-> c]>>
          \o WithPrefilterKey(Tail(contains), v, against_display)

_update_raw_candidates_with_variant(raw, contains, cap) ==
  MergeInto(raw, Slice(Items(SortedDescending(WithPrefilterKey(contains, "", TRUE))), cap),
            TRUE)

\* lookup: the body of the loop over variants in process_one_term
LookupUpdateRaw(raw, contains, cap, v) ==
  MergeInto(raw, Slice(Items(SortedDescending(WithPrefilterKey(contains, v, FALSE))), cap),
            FALSE)

per_variant_cap(top_k) == Min(count_per_variant, Max(PerVariantFloor, top_k * 8))

TrimCap(top_k) == Max(DEFAULT_MAX_VARIANT_RESULTS, per_variant_cap(top_k))

----------------------------------------------------------------------------
(* The run *)

VARIABLES
  module,              \* "remote" or "lookup": the script that runs
  terms,               \* run(terms, ...)
  top_k,               \* run(..., top_k, ...)
  save_all_candidates, \* run(..., save_all_candidates, ...)
  pc,                  \* where run is
  probes,              \* calls of assert_auth_ok so far
  called,              \* an $expand or $lookup request was sent
  raised,              \* the failure that left run, or "none"
  term_idx,            \* position in (terms or DEFAULT_TERMS)
  variant_idx,         \* position in variants
  expand_error,        \* what the expand of the last variant raised, while gathering
  raw_candidates,      \* the pool, in insertion order
  lookup_idx,          \* position in raw_candidates
  lookups,             \* $lookup calls of this term
  enriched,
  result,              \* what process_one_term returned, until run has used it
  all_best_rows,
  all_all_candidates,
  written,             \* the output files written
  http_pc,             \* where http_get_json is: "idle", "get", "returned" or "raised"
  http_calls,          \* calls of http_get_json so far
  attempt,             \* the local of http_get_json
  gets,                \* session.get calls of this call of http_get_json
  slept,               \* the time.sleep calls of this call, in milliseconds
  resp,                \* the last response of this call
  http_raised,         \* the failure that left http_get_json, or "none"
  expansion,           \* the "contains" entries that were merged or returned last
  text_filter,         \* expand_valueset_candidates(session, text_filter, count), in characters
  expand_pc,           \* where expand_valueset_candidates is
  expand_calls,        \* its calls of http_get_json: the filter sent and the payload
  score_in,            \* the arguments of compute_feature_flags and final_score
  score_out,           \* what they returned, in both scripts
  pass_pc,             \* where the selection of process_one_term is, taken pass by pass
  pass_chosen          \* its local chosen

vars == <<module, terms, top_k, save_all_candidates, pc, probes, called, raised, term_idx,
          variant_idx, expand_error, raw_candidates, lookup_idx, lookups, enriched, result,
          all_best_rows, all_all_candidates, written, http_pc, http_calls, attempt, gets,
          slept, resp, http_raised, expansion, text_filter, expand_pc, expand_calls,
          score_in, score_out, pass_pc, pass_chosen>>

\* the variables of one call of http_get_json
http == <<http_pc, http_calls, attempt, gets, slept, resp, http_raised>>

\* the variables that only the specifications of single functions use
expand_locals == <<text_filter, expand_pc, expand_calls>>

score_locals == <<score_in, score_out>>

pass_locals == <<pass_pc, pass_chosen>>

locals == <<expansion, expand_locals, score_locals, pass_locals>>

params == <<module, terms, top_k, save_all_candidates>>

\* The command lines: no term, which runs DEFAULT_TERMS, or one term of another
\* intent (not numeric, no expected property) with or without
\* --save-all-candidates, or one ratio term, or one term with a unit that admits
\* derived measurements
Invocations ==
  {[terms |-> <<>>, save_all_candidates |-> FALSE]}
  \cup {[terms |-> <<"Presentation">>, save_all_candidates |-> b] : b \in BOOLEAN}
  \cup {[terms |-> <<t>>, save_all_candidates |-> FALSE] : t \in {"FL/AC", "EFW (g)"}}

TopKs == (0 - NegTopK)..MaxTopK

\* terms or DEFAULT_TERMS
TermsToRun == IF terms = <<>> THEN DEFAULT_TERMS ELSE terms

user_term == TermsToRun[term_idx]
normalized == normalize_user_term(user_term)
variants ==
  Queried(IF module = "lookup" THEN LookupBuildTextVariants(user_term, normalized)
          ELSE build_text_variants(user_term, normalized))
numeric_expected == user_term_implies_numeric(user_term, normalized)
expected_props == expected_properties_for_intent(user_term, normalized)
allow_derived == _allowances_from_term(user_term).allow_derived
allow_percentile == _allowances_from_term(user_term).allow_percentile

Init ==
  /\ module \in {"remote", "lookup"}
  /\ \E args \in Invocations :
       terms = args.terms /\ save_all_candidates = args.save_all_candidates
  /\ top_k \in TopKs
  /\ pc = "auth"
  /\ probes = 0
  /\ called = FALSE
  /\ raised = "none"
  /\ term_idx = 0
  /\ variant_idx = 0
  /\ expand_error = None
  /\ raw_candidates = <<>>
  /\ lookup_idx = 0
  /\ lookups = 0
  /\ enriched = <<>>
  /\ result = None
  /\ all_best_rows = <<>>
  /\ all_all_candidates = <<>>
  /\ written = {}
  /\ http_pc = "idle"
  /\ http_calls = 0
  /\ attempt = 0
  /\ gets = 0
  /\ slept = <<>>
  /\ resp = None
  /\ http_raised = "none"
  /\ expansion = <<>>
  /\ text_filter = <<>>
  /\ expand_pc = "idle"
  /\ expand_calls = <<>>
  /\ score_in = None
  /\ score_out = None
  /\ pass_pc = "idle"
  /\ pass_chosen = <<>>

\* Faulty variant: a failed probe is recorded and the terms are processed
AuthProbeIgnored ==
  /\ pc = "auth"
  /\ probes' = probes + 1
  /\ \E outcome \in {"ok"} \cup Failures :
       /\ pc' = "term" /\ term_idx' = 1
       /\ raised' = IF outcome = "ok" THEN raised ELSE outcome
  /\ UNCHANGED <<params, http, locals, expand_error, called, variant_idx, raw_candidates, lookup_idx, lookups, enriched,
                 result, all_best_rows, all_all_candidates, written>>

\* assert_auth_ok(session): any failure of the probe leaves run
AuthProbe ==
  /\ pc = "auth"
  /\ probes' = probes + 1
  /\ \E outcome \in {"ok"} \cup Failures :
       IF outcome = "ok"
       THEN pc' = "term" /\ term_idx' = 1 /\ raised' = raised
       ELSE pc' = "raised" /\ raised' = outcome /\ term_idx' = term_idx
  /\ UNCHANGED <<params, http, locals, expand_error, called, variant_idx, raw_candidates, lookup_idx, lookups, enriched,
                 result, all_best_rows, all_all_candidates, written>>

\* for term in terms or DEFAULT_TERMS: process_one_term starts
StartTerm ==
  /\ pc = "term"
  /\ term_idx <= Len(TermsToRun)
  /\ pc' = "gather"
  /\ variant_idx' = 1
  /\ raw_candidates' = <<>>
  /\ enriched' = <<>>
  /\ lookup_idx' = 0
  /\ lookups' = 0
  /\ UNCHANGED <<params, http, locals, expand_error, probes, called, raised, term_idx, result, all_best_rows,
                 all_all_candidates, written>>

\* the loop over variants ends
AfterGather(raw) ==
  /\ pc' = IF raw = <<>> THEN "empty" ELSE "enrich"
  /\ variant_idx' = 0
  /\ lookup_idx' = IF raw = <<>> THEN 0 ELSE 1

\* One variant: expand_valueset_candidates (one call, and the fallback call when
\* the first answer is empty and the filter can be loosened), then the merge.
GatherVariant ==
  /\ pc = "gather"
  /\ called' = TRUE
  /\ \E all \in {variants} :
     LET v == all[variant_idx]
         last == variant_idx = Len(all)
         fb == _fallback_variant(v)
         \* the variant was skipped or merged; raw is the pool after it
         Continue(raw, full) ==
           /\ raw_candidates' = raw
           /\ raised' = raised
           /\ IF last \/ full THEN AfterGather(raw)
              ELSE pc' = pc /\ variant_idx' = variant_idx + 1 /\ lookup_idx' = lookup_idx
         Escape(failure) ==
           /\ pc' = "raised" /\ raised' = failure
           /\ UNCHANGED <<raw_candidates, variant_idx, lookup_idx>>
         Fail(call, failure) ==
           /\ expand_error' = Some([call |-> call, failure |-> failure])
           /\ IF Caught(module, failure) THEN Continue(raw_candidates, FALSE)
              ELSE Escape(failure)
         Merge(contains) ==
           /\ expand_error' = None
           /\ LET raw == IF module = "remote"
                         THEN _update_raw_candidates_with_variant(raw_candidates, contains,
                                                                  TrimCap(top_k))
                         ELSE LookupUpdateRaw(raw_candidates, contains, TrimCap(top_k), v)
              IN Continue(raw, Len(raw) >= GLOBAL_CANDIDATE_CAP)
     IN \/ \E failure \in Failures : Fail("first", failure)
        \/ \E contains \in Contains :
             /\ contains # <<>> \/ fb = None
             /\ Merge(contains)
        \/ /\ fb # None
           /\ \/ \E failure \in Failures : Fail("fallback", failure)
              \/ \E contains \in Contains : Merge(contains)
  /\ UNCHANGED <<params, http, locals, probes, term_idx, lookups, enriched, result, all_best_rows,
                 all_all_candidates, written>>

\* Faulty variant: the early return without the sentinel row
ReturnNoRow ==
  /\ pc = "empty"
  /\ result' = Some([best_rows |-> <<>>, all_candidates |-> <<>>, normalized |-> normalized])
  /\ pc' = "extend"
  /\ expand_error' = None
  /\ UNCHANGED <<params, http, locals, probes, called, raised, term_idx, variant_idx, raw_candidates,
                 lookup_idx, lookups, enriched, all_best_rows, all_all_candidates, written>>

\* if not raw_candidates: return the sentinel
ReturnNoCandidates ==
  /\ pc = "empty"
  /\ result' = Some([best_rows |-> <<_empty_best_row(user_term, normalized, NoCandidatesError)>>,
                     all_candidates |-> <<>>,
                     normalized |-> normalized])
  /\ pc' = "extend"
  /\ expand_error' = None
  /\ UNCHANGED <<params, http, locals, probes, called, raised, term_idx, variant_idx, raw_candidates,
                 lookup_idx, lookups, enriched, all_best_rows, all_all_candidates, written>>

\* for code in raw_candidates: one lookup_loinc_details
EnrichOne ==
  /\ pc = "enrich"
  /\ lookups' = lookups + 1
  /\ \E outcome \in {"ok"} \cup Failures :
       LET code == raw_candidates[lookup_idx].code
           next == /\ lookup_idx' = lookup_idx + 1
                   /\ pc' = IF lookup_idx = Len(raw_candidates) THEN "select" ELSE pc
                   /\ raised' = raised
       IN IF outcome = "ok" THEN enriched' = Append(enriched, LookupDetails(code)) /\ next
          ELSE IF Caught(module, outcome) THEN enriched' = enriched /\ next
          ELSE /\ pc' = "raised" /\ raised' = outcome
               /\ UNCHANGED <<enriched, lookup_idx>>
  /\ expand_error' = None
  /\ UNCHANGED <<params, http, locals, probes, called, term_idx, variant_idx, raw_candidates, result,
                 all_best_rows, all_all_candidates, written>>

\* Faulty variant: no sentinel when nothing was selected
SelectWithoutSentinel ==
  /\ pc = "select"
  /\ LET chosen == StrictThenRelaxed(module = "lookup", enriched, user_term, normalized,
                                     numeric_expected, expected_props, top_k,
                                     allow_derived, allow_percentile)
     IN result' = Some([best_rows |-> _best_rows_from_ranked(chosen, user_term, normalized),
                        all_candidates |-> _all_candidates_rows(enriched, user_term,
                                             normalized, numeric_expected, expected_props,
                                             allow_derived, allow_percentile),
                        normalized |-> normalized])
  /\ pc' = "extend"
  /\ UNCHANGED <<params, http, locals, expand_error, probes, called, raised, term_idx, variant_idx, raw_candidates,
                 lookup_idx, lookups, enriched, all_best_rows, all_all_candidates, written>>

\* Faulty variant: the selection takes the rows it chooses out of enriched
SelectConsuming ==
  /\ pc = "select"
  /\ LET chosen == StrictThenRelaxed(module = "lookup", enriched, user_term, normalized,
                                     numeric_expected, expected_props, top_k,
                                     allow_derived, allow_percentile)
         ranked == _best_rows_from_ranked(chosen, user_term, normalized)
         best_rows == IF ranked = <<>>
                      THEN <<_empty_best_row(user_term, normalized, NoMatchError)>>
                      ELSE ranked
     IN /\ result' = Some([best_rows |-> best_rows,
                           all_candidates |-> _all_candidates_rows(enriched, user_term,
                                                normalized, numeric_expected, expected_props,
                                                allow_derived, allow_percentile),
                           normalized |-> normalized])
        /\ enriched' = SelectSeq(enriched, LAMBDA d : d.code \notin CodesOf(chosen))
  /\ pc' = "extend"
  /\ UNCHANGED <<params, http, locals, expand_error, probes, called, raised, term_idx, variant_idx, raw_candidates,
                 lookup_idx, lookups, all_best_rows, all_all_candidates, written>>

\* strict then relaxed, the best rows (or the sentinel) and the audit rows
SelectAndBuild ==
  /\ pc = "select"
  /\ LET chosen == StrictThenRelaxed(module = "lookup", enriched, user_term, normalized,
                                     numeric_expected, expected_props, top_k,
                                     allow_derived, allow_percentile)
         ranked == _best_rows_from_ranked(chosen, user_term, normalized)
         best_rows == IF ranked = <<>>
                      THEN <<_empty_best_row(user_term, normalized, NoMatchError)>>
                      ELSE ranked
     IN result' = Some([best_rows |-> best_rows,
                        all_candidates |-> _all_candidates_rows(enriched, user_term,
                                             normalized, numeric_expected, expected_props,
                                             allow_derived, allow_percentile),
                        normalized |-> normalized])
  /\ pc' = "extend"
  /\ UNCHANGED <<params, http, locals, expand_error, probes, called, raised, term_idx, variant_idx, raw_candidates,
                 lookup_idx, lookups, enriched, all_best_rows, all_all_candidates, written>>

\* run: all_best_rows.extend(result["best_rows"]), and the audit rows when asked
ExtendResults ==
  /\ pc = "extend"
  /\ all_best_rows' = all_best_rows \o The(result).best_rows
  /\ all_all_candidates' = IF save_all_candidates
                           THEN all_all_candidates \o The(result).all_candidates
                           ELSE all_all_candidates
  /\ result' = None
  /\ term_idx' = term_idx + 1
  /\ raw_candidates' = <<>>
  /\ enriched' = <<>>
  /\ lookup_idx' = 0
  /\ lookups' = 0
  /\ pc' = "term"
  /\ UNCHANGED <<params, http, locals, expand_error, probes, called, raised, variant_idx, written>>

\* after the loop: the preview is logged and the CSV files are written
WriteOutputs ==
  /\ pc = "term"
  /\ term_idx > Len(TermsToRun)
  /\ written' = (IF all_best_rows # <<>> THEN {"out_csv"} ELSE {})
                \cup (IF save_all_candidates /\ all_all_candidates # <<>>
                         /\ (module = "remote" \/ all_best_rows # <<>>)
                      THEN {"all_candidates_out"} ELSE {})
  /\ pc' = "done"
  /\ UNCHANGED <<params, http, locals, expand_error, probes, called, raised, term_idx, variant_idx, raw_candidates,
                 lookup_idx, lookups, enriched, result, all_best_rows, all_all_candidates>>

Next ==
  \/ AuthProbe
  \/ StartTerm
  \/ GatherVariant
  \/ ReturnNoCandidates
  \/ EnrichOne
  \/ SelectAndBuild
  \/ ExtendResults
  \/ WriteOutputs

Spec == Init /\ [][Next]_vars

----------------------------------------------------------------------------
(* One call of http_get_json, request by request.  The run above takes a call
   as a whole, by the way it ends (a payload or one of Failures). *)

\* Times are in milliseconds.
max_retries == 3
sleep_base == 500

MaxCalls == 2

RetryStatuses == {429, 502, 503, 504}

\* The values of the Retry-After header: absent, empty, a number of seconds, or
\* an HTTP date
RetryAfterValues == {None, Some(""), Some("7"), Some("Wed, 21 Oct 2015 07:28:00 GMT")}

\* What session.get can return: a retryable status with any Retry-After, 401,
\* another error status, or 200 with a body that is JSON or is not
Responses ==
  {[status_code |-> st, retry_after |-> ra, json |-> FALSE] :
     st \in RetryStatuses, ra \in RetryAfterValues}
  \cup {[status_code |-> st, retry_after |-> None, json |-> FALSE] : st \in {401, 404, 500}}
  \cup {[status_code |-> 200, retry_after |-> None, json |-> b] : b \in BOOLEAN}

\* float(retry_after), or None where it raises ValueError
FloatOf(retry_after) ==
  CASE retry_after = "7" -> Some(7000)
    [] OTHER -> None

\* A backoff that would not grow
ConstantBackoff(n) == sleep_base

\* sleep_base * (2 ** (attempt - 1))
Backoff(n) == sleep_base * 2 ^ (n - 1)

\* sleep_s for the response r after attempt was incremented to n
SleepOf(r, n) ==
  IF r.retry_after # None /\ The(r.retry_after) # ""
  THEN (IF FloatOf(The(r.retry_after)) # None THEN The(FloatOf(The(r.retry_after)))
        ELSE Backoff(n))
  ELSE Backoff(n)

\* http_get_json is called.
HttpCall ==
  /\ http_pc \in {"idle", "returned", "raised"}
  /\ http_calls < MaxCalls
  /\ http_calls' = http_calls + 1
  /\ http_pc' = "get"
  /\ attempt' = 0
  /\ gets' = 0
  /\ slept' = <<>>
  /\ resp' = None
  /\ http_raised' = "none"
  /\ UNCHANGED <<params, locals, expand_error, pc, probes, called, raised, term_idx, variant_idx, raw_candidates,
                 lookup_idx, lookups, enriched, result, all_best_rows, all_all_candidates,
                 written>>

\* session.get raises (no connection, timeout): the call ends with it.
HttpGetRaises ==
  /\ http_pc = "get"
  /\ gets' = gets + 1
  /\ http_pc' = "raised"
  /\ http_raised' = "conn_error"
  /\ UNCHANGED <<params, locals, expand_error, pc, probes, called, raised, term_idx, variant_idx, raw_candidates,
                 lookup_idx, lookups, enriched, result, all_best_rows, all_all_candidates,
                 written, http_calls, attempt, slept, resp>>

\* One turn of the loop with a response: 401 raises, a retryable status counts
\* an attempt and either raises or sleeps and goes round, any other status
\* raises or returns the parsed body.
HttpGetAnswered ==
  /\ http_pc = "get"
  /\ gets' = gets + 1
  /\ \E r \in Responses :
       /\ resp' = Some(r)
       /\ IF r.status_code = 401
          THEN http_pc' = "raised" /\ http_raised' = "unauthorized" /\ UNCHANGED <<attempt, slept>>
          ELSE IF r.status_code \in RetryStatuses
          THEN /\ attempt' = attempt + 1
               /\ IF attempt' > max_retries
                  THEN http_pc' = "raised" /\ http_raised' = "http_error" /\ UNCHANGED slept
                  ELSE /\ slept' = Append(slept, SleepOf(r, attempt'))
                       /\ UNCHANGED <<http_pc, http_raised>>
          ELSE /\ UNCHANGED <<attempt, slept>>
               /\ IF r.status_code >= 400
                  THEN http_pc' = "raised" /\ http_raised' = "http_error"
                  ELSE IF r.json
                  THEN http_pc' = "returned" /\ UNCHANGED http_raised
                  ELSE http_pc' = "raised" /\ http_raised' = "bad_json"
  /\ UNCHANGED <<params, locals, expand_error, pc, probes, called, raised, term_idx, variant_idx, raw_candidates,
                 lookup_idx, lookups, enriched, result, all_best_rows, all_all_candidates,
                 written, http_calls>>

\* The run stands still while the calls of http_get_json are followed.
HttpInit ==
  /\ module \in {"remote", "lookup"}
  /\ terms = <<>>
  /\ save_all_candidates = FALSE
  /\ top_k = MaxTopK
  /\ pc = "auth"
  /\ probes = 0
  /\ called = FALSE
  /\ raised = "none"
  /\ term_idx = 0
  /\ variant_idx = 0
  /\ expand_error = None
  /\ raw_candidates = <<>>
  /\ lookup_idx = 0
  /\ lookups = 0
  /\ enriched = <<>>
  /\ result = None
  /\ all_best_rows = <<>>
  /\ all_all_candidates = <<>>
  /\ written = {}
  /\ http_pc = "idle"
  /\ http_calls = 0
  /\ attempt = 0
  /\ gets = 0
  /\ slept = <<>>
  /\ resp = None
  /\ http_raised = "none"
  /\ expansion = <<>>
  /\ text_filter = <<>>
  /\ expand_pc = "idle"
  /\ expand_calls = <<>>
  /\ score_in = None
  /\ score_out = None
  /\ pass_pc = "idle"
  /\ pass_chosen = <<>>

HttpNext ==
  \/ HttpCall
  \/ HttpGetRaises
  \/ HttpGetAnswered

HttpSpec == HttpInit /\ [][HttpNext]_vars

\* session.get has a timeout and time.sleep returns: a call that is in its loop
\* makes its next turn.
HttpFairSpec == HttpSpec /\ WF_vars(HttpGetRaises \/ HttpGetAnswered)

----------------------------------------------------------------------------
(* expand_valueset_candidates, on its own: one call for any filter over a small
   alphabet, with any payload or failure of each request. *)

MaxFilterLen == 5

FilterChars == {"a", " ", "[", "]", ","}

Filters == UNION {[1..k -> FilterChars] : k \in 0..MaxFilterLen}

\* The payloads of $expand by shape: without "expansion", with "expansion":
\* null, without "contains", with "contains": null, with "contains": [], and
\* with one entry.
Payloads ==
  {"no_expansion", "null_expansion", "no_contains", "null_contains", "empty_contains",
   "one_entry"}

\* (data.get("expansion", {}) or {}).get("contains", []) or []
ContainsOf(data) ==
  IF data = "one_entry"
  THEN <<[code |-> "11984-2", display |-> "Fetal Head Circumference US"]>>
  ELSE <<>>

ExpandInit ==
  /\ module \in {"remote", "lookup"}
  /\ terms = <<>>
  /\ save_all_candidates = FALSE
  /\ top_k = MaxTopK
  /\ pc = "gather"
  /\ probes = 1
  /\ called = FALSE
  /\ raised = "none"
  /\ term_idx = 1
  /\ variant_idx = 1
  /\ expand_error = None
  /\ raw_candidates = <<>>
  /\ lookup_idx = 0
  /\ lookups = 0
  /\ enriched = <<>>
  /\ result = None
  /\ all_best_rows = <<>>
  /\ all_all_candidates = <<>>
  /\ written = {}
  /\ http_pc = "idle"
  /\ http_calls = 0
  /\ attempt = 0
  /\ gets = 0
  /\ slept = <<>>
  /\ resp = None
  /\ http_raised = "none"
  /\ expansion = <<>>
  /\ text_filter \in Filters
  /\ expand_pc = "first"
  /\ expand_calls = <<>>
  /\ score_in = None
  /\ score_out = None
  /\ pass_pc = "idle"
  /\ pass_chosen = <<>>

\* one http_get_json(session, f"{FHIR_BASE}/ValueSet/$expand", params) that raises
ExpandRaises(call, filter) ==
  /\ \E failure \in Failures : expand_error' = Some([call |-> call, failure |-> failure])
  /\ expand_calls' = Append(expand_calls, [filter |-> filter, data |-> None])
  /\ expand_pc' = "raised"
  /\ UNCHANGED expansion

\* the first call, and the test for the fallback
ExpandFirst ==
  /\ expand_pc = "first"
  /\ \/ ExpandRaises("first", text_filter)
     \/ \E data \in Payloads :
          LET fb == FallbackOfChars(text_filter) IN
          /\ expand_calls' = Append(expand_calls, [filter |-> text_filter, data |-> Some(data)])
          /\ IF ContainsOf(data) = <<>> /\ Truthy(fb)
             THEN expand_pc' = "fallback" /\ UNCHANGED expansion
             ELSE expand_pc' = "returned" /\ expansion' = ContainsOf(data)
          /\ UNCHANGED expand_error
  /\ UNCHANGED <<params, http, pc, probes, called, raised, term_idx, variant_idx, raw_candidates,
                 lookup_idx, lookups, enriched, result, all_best_rows, all_all_candidates,
                 written, text_filter, score_locals, pass_locals>>

\* params["filter"] = fb and the second call
ExpandFallback ==
  /\ expand_pc = "fallback"
  /\ LET fb == The(FallbackOfChars(text_filter)) IN
     \/ ExpandRaises("fallback", fb)
     \/ \E data \in Payloads :
          /\ expand_calls' = Append(expand_calls, [filter |-> fb, data |-> Some(data)])
          /\ expand_pc' = "returned"
          /\ expansion' = ContainsOf(data)
          /\ UNCHANGED expand_error
  /\ UNCHANGED <<params, http, pc, probes, called, raised, term_idx, variant_idx, raw_candidates,
                 lookup_idx, lookups, enriched, result, all_best_rows, all_all_candidates,
                 written, text_filter, score_locals, pass_locals>>

ExpandNext ==
  \/ ExpandFirst
  \/ ExpandFallback

ExpandSpec == ExpandInit /\ [][ExpandNext]_vars

----------------------------------------------------------------------------
(* compute_feature_flags and final_score, on their own: the candidates of the
   service and one of them with other spellings of SCALE_TYP and PROPERTY, any
   flags of the display and any intent. *)

ScaleSpellings == {"Qn", "qn", " Qn ", "Ord"}

PropertySpellings == {"Circ", "circ", "Circ "}

Spelled(scale, prop) ==
  [code |-> "11984-2", display |-> "Fetal Head Circumference US", status |-> "ACTIVE",
   properties |-> [PROPERTY |-> prop, SCALE_TYP |-> scale, CLASS |-> "OB.US", SYSTEM |-> "Head"]]

ScoreDetails ==
  {LookupDetails(c) : c \in Codes}
  \cup {Spelled(scale, prop) : scale \in ScaleSpellings, prop \in PropertySpellings}

ScoreTerms == {"HC (cm)", "EFW Percentile", "Presentation", "Left HC"}

ScoreInputs ==
  {[details |-> d, user_term |-> t, normalized |-> normalize_user_term(t),
    flags |-> [compute_feature_flags(d, ne, ep)
                 EXCEPT !.is_derived = f[1], !.is_percentile = f[2], !.has_laterality = f[3]],
    allow_derived |-> al[1], allow_percentile |-> al[2],
    numeric_expected |-> ne, expected_props |-> ep] :
     d \in ScoreDetails, t \in ScoreTerms, f \in BOOLEAN \X BOOLEAN \X BOOLEAN,
     al \in BOOLEAN \X BOOLEAN, ne \in BOOLEAN, ep \in {{}, {"Circ"}, {"Prctl"}}}

ScoreInit ==
  /\ module \in {"remote"}
  /\ terms = <<>>
  /\ save_all_candidates = FALSE
  /\ top_k = MaxTopK
  /\ pc = "select"
  /\ probes = 1
  /\ called = FALSE
  /\ raised = "none"
  /\ term_idx = 1
  /\ variant_idx = 0
  /\ expand_error = None
  /\ raw_candidates = <<>>
  /\ lookup_idx = 0
  /\ lookups = 0
  /\ enriched = <<>>
  /\ result = None
  /\ all_best_rows = <<>>
  /\ all_all_candidates = <<>>
  /\ written = {}
  /\ http_pc = "idle"
  /\ http_calls = 0
  /\ attempt = 0
  /\ gets = 0
  /\ slept = <<>>
  /\ resp = None
  /\ http_raised = "none"
  /\ expansion = <<>>
  /\ text_filter = <<>>
  /\ expand_pc = "idle"
  /\ expand_calls = <<>>
  /\ score_in \in {Some(a) : a \in ScoreInputs}
  /\ score_out = None
  /\ pass_pc = "idle"
  /\ pass_chosen = <<>>

\* the calls of one candidate in filter_and_rank: the flags of the details, and
\* the score, by the function of each script
Score ==
  /\ score_in # None
  /\ score_out = None
  /\ LET a == The(score_in) IN
     score_out' =
       Some([flags |-> compute_feature_flags(a.details, a.numeric_expected, a.expected_props),
             property_scale |-> _score_property_scale(PropsOf(a.details), a.expected_props,
                                                      a.numeric_expected),
             remote |-> final_score(a.details, a.user_term, a.normalized, a.flags,
                                    a.allow_derived, a.allow_percentile, a.numeric_expected,
                                    a.expected_props),
             lookup |-> LookupFinalScore(a.details, a.user_term, a.normalized, a.flags,
                                         a.allow_derived, a.allow_percentile,
                                         a.numeric_expected, a.expected_props)])
  /\ UNCHANGED <<params, http, pc, probes, called, raised, term_idx, variant_idx, expand_error,
                 raw_candidates, lookup_idx, lookups, enriched, result, all_best_rows,
                 all_all_candidates, written, expansion, expand_locals, score_in, pass_locals>>

ScoreNext == Score

ScoreSpec == ScoreInit /\ [][ScoreNext]_vars

----------------------------------------------------------------------------
(* The selection of one term on its own: process_one_term from the enriched
   list on, for every short list of distinct detail records. *)

MaxRanked == 2

\* the codes of the service and one more measurement of the expected property
\* whose display shares one word with the query
RankCodes == Codes \cup {"11979-2"}

RankLists ==
  UNION {{[i \in 1..n |-> LookupDetails(cs[i])] :
            cs \in {f \in [1..n -> RankCodes] : \A i, j \in 1..n : f[i] = f[j] => i = j}} :
         n \in 1..MaxRanked}

RankTerms == {"HC (cm)", "Presentation", "FL/AC", "EFW (g)"}

RankInit ==
  /\ module \in {"remote", "lookup"}
  /\ terms \in {<<t>> : t \in RankTerms}
  /\ save_all_candidates = FALSE
  /\ top_k \in TopKs
  /\ pc = "select"
  /\ probes = 1
  /\ called = TRUE
  /\ raised = "none"
  /\ term_idx = 1
  /\ variant_idx = 0
  /\ expand_error = None
  /\ enriched \in RankLists
  /\ raw_candidates = [i \in DOMAIN enriched |-> enriched[i].code]
  /\ lookup_idx = Len(enriched)
  /\ lookups = Len(enriched)
  /\ result = None
  /\ all_best_rows = <<>>
  /\ all_all_candidates = <<>>
  /\ written = {}
  /\ http_pc = "idle"
  /\ http_calls = 0
  /\ attempt = 0
  /\ gets = 0
  /\ slept = <<>>
  /\ resp = None
  /\ http_raised = "none"
  /\ expansion = <<>>
  /\ text_filter = <<>>
  /\ expand_pc = "idle"
  /\ expand_calls = <<>>
  /\ score_in = None
  /\ score_out = None
  /\ pass_pc = "idle"
  /\ pass_chosen = <<>>

RankNext == SelectAndBuild

RankSpec == RankInit /\ [][RankNext]_vars

----------------------------------------------------------------------------
(* The selection of one term pass by pass: the strict call of filter_and_rank,
   the relaxed call and the fill, then the rows of the result. *)

PassInit ==
  /\ module \in {"remote", "lookup"}
  /\ terms \in {<<t>> : t \in RankTerms}
  /\ save_all_candidates = FALSE
  /\ top_k \in TopKs
  /\ pc = "select"
  /\ probes = 1
  /\ called = TRUE
  /\ raised = "none"
  /\ term_idx = 1
  /\ variant_idx = 0
  /\ expand_error = None
  /\ enriched \in RankLists
  /\ raw_candidates = [i \in DOMAIN enriched |-> enriched[i].code]
  /\ lookup_idx = Len(enriched)
  /\ lookups = Len(enriched)
  /\ result = None
  /\ all_best_rows = <<>>
  /\ all_all_candidates = <<>>
  /\ written = {}
  /\ http_pc = "idle"
  /\ http_calls = 0
  /\ attempt = 0
  /\ gets = 0
  /\ slept = <<>>
  /\ resp = None
  /\ http_raised = "none"
  /\ expansion = <<>>
  /\ text_filter = <<>>
  /\ expand_pc = "idle"
  /\ expand_calls = <<>>
  /\ score_in = None
  /\ score_out = None
  /\ pass_pc = "strict"
  /\ pass_chosen = <<>>

\* chosen = filter_and_rank(enriched, ..., strict=True, ...)[:top_k]
StrictPass ==
  /\ pc = "select" /\ pass_pc = "strict"
  /\ pass_chosen' = Slice(filter_and_rank(enriched, user_term, normalized, numeric_expected,
                                          expected_props, TRUE, allow_derived,
                                          allow_percentile),
                          top_k)
  /\ enriched' = EnrichedAfter(enriched, user_term, normalized, numeric_expected,
                               expected_props, TRUE, allow_derived, allow_percentile)
  /\ pass_pc' = IF Len(pass_chosen') < top_k THEN "relaxed" ELSE "build"
  /\ UNCHANGED <<params, http, expansion, expand_locals, score_locals, expand_error, pc, probes,
                 called, raised, term_idx, variant_idx, raw_candidates, lookup_idx, lookups,
                 result, all_best_rows, all_all_candidates, written>>

\* if len(chosen) < top_k: the relaxed call and the fill
RelaxedPass ==
  /\ pc = "select" /\ pass_pc = "relaxed"
  /\ pass_chosen' = FillRelaxed(pass_chosen,
                                filter_and_rank(enriched, user_term, normalized,
                                                numeric_expected, expected_props, FALSE,
                                                TRUE, TRUE),
                                top_k, CodesOf(pass_chosen), module = "lookup")
  /\ enriched' = EnrichedAfter(enriched, user_term, normalized, numeric_expected,
                               expected_props, FALSE, TRUE, TRUE)
  /\ pass_pc' = "build"
  /\ UNCHANGED <<params, http, expansion, expand_locals, score_locals, expand_error, pc, probes,
                 called, raised, term_idx, variant_idx, raw_candidates, lookup_idx, lookups,
                 result, all_best_rows, all_all_candidates, written>>

\* the best rows (or the sentinel) and the audit rows of what was chosen
BuildRows ==
  /\ pc = "select" /\ pass_pc = "build"
  /\ LET ranked == _best_rows_from_ranked(pass_chosen, user_term, normalized)
     IN result' = Some([best_rows |-> IF ranked = <<>>
                                      THEN <<_empty_best_row(user_term, normalized,
                                                             NoMatchError)>>
                                      ELSE ranked,
                        all_candidates |-> _all_candidates_rows(enriched, user_term,
                                             normalized, numeric_expected, expected_props,
                                             allow_derived, allow_percentile),
                        normalized |-> normalized])
  /\ pc' = "extend"
  /\ pass_pc' = "done"
  /\ UNCHANGED <<params, http, expansion, expand_locals, score_locals, expand_error, probes,
                 called, raised, term_idx, variant_idx, raw_candidates, lookup_idx, lookups,
                 enriched, pass_chosen, all_best_rows, all_all_candidates, written>>

PassNext == StrictPass \/ RelaxedPass \/ BuildRows

PassSpec == PassInit /\ [][PassNext]_vars

----------------------------------------------------------------------------
(* The merge of one variant's answer into the pool, on its own: the answers
   may repeat a code, give a code another display, or lack the code. *)

MaxMerged == 2

MergeEntries ==
  {[code |-> "11984-2", display |-> "Fetal Head Circumference US"],
   [code |-> "11984-2", display |-> "Head circumference"],
   [code |-> "LP28442-8", display |-> "Head circumference"],
   [code |-> "LA6576-8", display |-> "Cephalic presentation"],
   [code |-> "", display |-> "Cephalic presentation"],
   [code |-> "11820-8", display |-> "Fetal Head Circumference US estimated from AC"]}

MergeContains == UNION {[1..k -> MergeEntries] : k \in 0..MaxMerged}

\* the first of the default terms, before its first variant
MergeInit ==
  /\ module \in {"remote", "lookup"}
  /\ terms = <<>>
  /\ save_all_candidates = FALSE
  /\ top_k \in TopKs
  /\ pc = "gather"
  /\ probes = 1
  /\ called = FALSE
  /\ raised = "none"
  /\ term_idx = 1
  /\ variant_idx = 1
  /\ expand_error = None
  /\ raw_candidates = <<>>
  /\ lookup_idx = 0
  /\ lookups = 0
  /\ enriched = <<>>
  /\ result = None
  /\ all_best_rows = <<>>
  /\ all_all_candidates = <<>>
  /\ written = {}
  /\ http_pc = "idle"
  /\ http_calls = 0
  /\ attempt = 0
  /\ gets = 0
  /\ slept = <<>>
  /\ resp = None
  /\ http_raised = "none"
  /\ expansion = <<>>
  /\ text_filter = <<>>
  /\ expand_pc = "idle"
  /\ expand_calls = <<>>
  /\ score_in = None
  /\ score_out = None
  /\ pass_pc = "idle"
  /\ pass_chosen = <<>>

\* One turn of the loop over variants whose expand answered: the sort, the trim
\* and the merge, then the test of the cap.
MergeVariant ==
  /\ pc = "gather"
  /\ called' = TRUE
  /\ \E answer \in MergeContains :
       /\ expansion' = answer
       /\ \E all \in {variants} :
            LET v == all[variant_idx]
                raw == IF module = "remote"
                       THEN _update_raw_candidates_with_variant(raw_candidates, answer,
                                                                TrimCap(top_k))
                       ELSE LookupUpdateRaw(raw_candidates, answer, TrimCap(top_k), v)
            IN /\ raw_candidates' = raw
               /\ IF variant_idx = Len(all) \/ Len(raw) >= GLOBAL_CANDIDATE_CAP
                  THEN AfterGather(raw)
                  ELSE pc' = pc /\ variant_idx' = variant_idx + 1 /\ lookup_idx' = lookup_idx
  /\ UNCHANGED <<params, http, probes, raised, term_idx, expand_error, lookups, enriched, result,
                 all_best_rows, all_all_candidates, written, expand_locals, score_locals, pass_locals>>

MergeNext == MergeVariant

MergeSpec == MergeInit /\ [][MergeNext]_vars

----------------------------------------------------------------------------
(* Properties of one term's result.  They are read where process_one_term has
   returned and run has not yet taken the value: the locals of the call
   (raw_candidates, enriched, lookups) are still there. *)

Returned == pc = "extend"

best_rows == IF result = None THEN <<>> ELSE The(result).best_rows

\* the rows that carry a rank: every row that is not a sentinel
RankedRows == {i \in DOMAIN best_rows : best_rows[i].rank # None}

SentinelRows == {i \in DOMAIN best_rows : best_rows[i].error # None}

\* the selection of the call that returned
Chosen ==
  StrictThenRelaxed(module = "lookup", enriched, user_term, normalized, numeric_expected,
                    expected_props, top_k, allow_derived, allow_percentile)

\* [C1] Every result holds at most top_k ranked rows, for every top_k the
\* command line takes (--top-k is any integer).  A count is never negative, so
\* for a negative top_k the bound is read as no ranked row at all.
C1_AtMostTopKRows == Returned => Cardinality(RankedRows) <= Max(top_k, 0)

\* [C2] A gathering that ends with an empty pool returns exactly one row, the
\* sentinel with error "No candidates returned", and no audit row; no lookup
\* was sent and no selection ran (both need a pool that is not empty).
C2_EmptyPoolSentinel ==
  /\ (Returned /\ raw_candidates = <<>>) =>
       /\ Len(best_rows) = 1
       /\ best_rows[1].error = Some("No candidates returned")
       /\ best_rows[1].rank = None
       /\ best_rows[1].loinc_code = None
       /\ best_rows[1].search_term = user_term
       /\ The(result).all_candidates = <<>>
       /\ lookups = 0
       /\ enriched = <<>>
  /\ pc \in {"enrich", "select"} => raw_candidates # <<>>
  /\ lookups > 0 => raw_candidates # <<>>

C2_Witness == Returned /\ raw_candidates = <<>> /\ Len(best_rows) = 1 /\ called

\* [C3] With a pool that is not empty, a selection that chose nothing (every
\* lookup failed, or both passes dropped every candidate) returns exactly one
\* row, the sentinel with error "No acceptable matches after filtering"; a
\* selection that chose something returns no sentinel.
C3_NoMatchSentinel ==
  (Returned /\ raw_candidates # <<>>) =>
    IF Chosen = <<>>
    THEN /\ Len(best_rows) = 1
         /\ best_rows[1].error = Some("No acceptable matches after filtering")
         /\ best_rows[1].rank = None
         /\ best_rows[1].loinc_code = None
         /\ best_rows[1].search_term = user_term
    ELSE SentinelRows = {}

\* every lookup of a pool of two failed
C3_Witness ==
  /\ Returned /\ Len(raw_candidates) = 2 /\ lookups = 2 /\ enriched = <<>>
  /\ SentinelRows = {1}

\* [C4] No code is in two ranked rows of one result.
C4_NoDuplicateCodes ==
  Returned => \A i, j \in RankedRows : i # j => best_rows[i].loinc_code # best_rows[j].loinc_code

\* the strict pass chose one row and the relaxed pass, which ranks that code
\* too, added another
C4_Witness ==
  /\ Returned /\ Cardinality(RankedRows) = 2
  /\ best_rows[1].stage = Some("strict") /\ best_rows[2].stage = Some("relaxed")

\* a part, an answer list or a deprecated code, read from the detail record
Unreportable(d) ==
  \/ StartsWith(OrEmpty(Get(d, "code")), "LP")
  \/ StartsWith(OrEmpty(Get(d, "code")), "LA")
  \/ Upper(OrEmpty(Get(d, "status"))) = "DEPRECATED"
  \/ LowerHas(OrEmpty(Get(d, "display")), "deprecated")

\* [C5] Neither call of filter_and_rank, strict or relaxed, returns a part, an
\* answer list or a deprecated code, and no best row names one.
C5_UnreportableNeverRanked ==
  Returned =>
    /\ \A strict \in BOOLEAN :
         LET ranked == filter_and_rank(enriched, user_term, normalized, numeric_expected,
                                       expected_props, strict,
                                       IF strict THEN allow_derived ELSE TRUE,
                                       IF strict THEN allow_percentile ELSE TRUE)
         IN \A i \in DOMAIN ranked : ~Unreportable(ranked[i])
    /\ \A i \in RankedRows : ~Unreportable(LookupDetails(The(best_rows[i].loinc_code)))

\* an answer list was enriched beside a code that was ranked
C5_Witness ==
  /\ Returned /\ RankedRows # {}
  /\ \E i \in DOMAIN enriched : StartsWith(enriched[i].code, "LA")

\* what final_score gives the candidate of a best row with no penalty term
Unpenalised(row) ==
  LET d == LookupDetails(The(row.loinc_code))
      flags == compute_feature_flags(d, numeric_expected, expected_props)
  IN final_score(d, user_term, normalized,
                 [flags EXCEPT !.is_derived = FALSE, !.is_percentile = FALSE,
                               !.has_laterality = FALSE],
                 TRUE, TRUE, numeric_expected, expected_props)

\* [C6] A best row whose candidate is derived, for a term that does not allow
\* derived codes (or a percentile for a term that does not allow percentiles),
\* is never tagged "strict": it is tagged "relaxed" and its score is the score
\* without penalties less 4 if derived and less 2 if a percentile (the
\* penalties of the relaxed pass), and less 3 for an unwanted laterality.
C6_GatedOnlyRelaxedWithPenalty ==
  Returned =>
    \A i \in RankedRows :
      LET row == best_rows[i]
          derived == row.flags.is_derived = Some(TRUE)
          percentile == row.flags.is_percentile = Some(TRUE)
          lateral == row.flags.has_laterality = Some(TRUE)
                       /\ ~(LowerHas(user_term, "left") \/ LowerHas(user_term, "right"))
      IN ((derived /\ ~allow_derived) \/ (percentile /\ ~allow_percentile)) =>
           /\ row.stage = Some("relaxed")
           /\ row.score = Some(Unpenalised(row) - (IF derived THEN 4 ELSE 0)
                                 - (IF percentile THEN 2 ELSE 0)
                                 - (IF lateral THEN 3 ELSE 0))

\* the relaxed pass added a derived code to a strict row, for a term that does
\* not allow derived codes
C6_Witness ==
  /\ Returned /\ ~allow_derived
  /\ \E i, j \in RankedRows :
       /\ best_rows[i].stage = Some("strict")
       /\ best_rows[j].stage = Some("relaxed")
       /\ best_rows[j].flags.is_derived = Some(TRUE)

----------------------------------------------------------------------------
(* Properties of run *)

\* [C7] After a successful probe no failure of an expand or lookup call leaves
\* run, and a run that ends has at least one best row for every term.
C7_NoFailureLeavesATerm ==
  /\ raised # "none" => term_idx = 0
  /\ pc = "done" =>
       \A t \in DOMAIN TermsToRun :
         \E i \in DOMAIN all_best_rows : all_best_rows[i].search_term = TermsToRun[t]

\* [C8] The probe is sent exactly once, before any expand or lookup call; a
\* failed probe ends run with the failure raised, before any term, with no
\* request sent, no row kept and no file written.
C8_ProbeOnceAndFirst ==
  /\ probes <= 1
  /\ pc # "auth" => probes = 1
  /\ (called \/ lookups > 0 \/ result # None \/ all_best_rows # <<>>) =>
       (probes = 1 /\ raised \in {"none", "unauthorized"} /\ term_idx >= 1)
  /\ (raised # "none" => pc = "raised")
  /\ (pc = "raised" /\ term_idx = 0) =>
       /\ ~called /\ lookups = 0
       /\ result = None /\ all_best_rows = <<>> /\ all_all_candidates = <<>>
       /\ written = {}
       /\ ~ENABLED Next

C8_Witness == pc = "raised" /\ term_idx = 0 /\ probes = 1 /\ raised = "http_error"

\* [C9] The pool of a term never holds more than GLOBAL_CANDIDATE_CAP codes.
C9_PoolWithinCap == Len(raw_candidates) <= GLOBAL_CANDIDATE_CAP

----------------------------------------------------------------------------
(* The ranking and the order of enrichment *)

Perms(n) == {f \in [1..n -> 1..n] : \A i, j \in 1..n : i # j => f[i] # f[j]}

\* the enriched candidates in another order
Reordered(f) == [i \in DOMAIN enriched |-> enriched[f[i]]]

\* what the selection chooses for each order of the enriched candidates
Selections ==
  {StrictThenRelaxed(module = "lookup", Reordered(f), user_term, normalized,
                     numeric_expected, expected_props, top_k, allow_derived,
                     allow_percentile) : f \in Perms(Len(enriched))}

\* the sort tuple of an annotated row
SortTuple(row) ==
  <<row._score, row._flags.property_match, row._flags.scale_match,
    ~row._flags.is_derived, ~row._flags.is_percentile>>

\* the codes by rank
RankedCodes(chosen) == [i \in DOMAIN chosen |-> chosen[i].code]

\* the sort tuples and stages by rank
RankedTuples(chosen) == [i \in DOMAIN chosen |-> <<SortTuple(chosen[i]), chosen[i]._stage>>]

\* no two candidates that one pass accepts have the same sort tuple
TieFree ==
  \A strict \in BOOLEAN :
    LET ranked == filter_and_rank(enriched, user_term, normalized, numeric_expected,
                                  expected_props, strict,
                                  IF strict THEN allow_derived ELSE TRUE,
                                  IF strict THEN allow_percentile ELSE TRUE)
    IN \A i, j \in DOMAIN ranked : i # j => SortTuple(ranked[i]) # SortTuple(ranked[j])

\* [C10] as the specification states it: the codes by rank are the same for
\* every order of the enriched candidates, ties on the sort tuple included.
C10_RankIgnoresOrder ==
  Returned => Cardinality({RankedCodes(chosen) : chosen \in Selections}) = 1

\* [C10] amended: the best rows name the codes of the selection by rank; for
\* every order of the enriched candidates the sort tuples and stages by rank
\* are the same, and the codes by rank are the same when no two candidates
\* that one pass accepts tie on the whole sort tuple.
C10_RankIgnoresOrderUnlessTied ==
  Returned =>
    LET selections == Selections
        named == [i \in RankedRows |-> The(best_rows[i].loinc_code)]
    IN /\ named = RankedCodes(Chosen)
       /\ Cardinality({RankedTuples(chosen) : chosen \in selections}) = 1
       /\ TieFree => \A chosen \in selections : RankedCodes(chosen) = named

\* two candidates without a tie were enriched worst first and ranked best first
C10_Witness ==
  /\ Returned /\ TieFree /\ Cardinality(RankedRows) = 2
  /\ best_rows[1].loinc_code = Some(enriched[2].code)
  /\ best_rows[2].loinc_code = Some(enriched[1].code)

----------------------------------------------------------------------------
(* Repetition and the scores of the relaxed pass *)

AuditRowsOf(code) ==
  {i \in DOMAIN The(result).all_candidates : The(result).all_candidates[i].loinc_code = code}

\* [C12] The score of a best row of the relaxed stage is the score_relaxed of
\* the same candidate in the audit rows (allow_derived and allow_percentile
\* true, numeric_expected false).
C12_RelaxedScoreIsAuditScore ==
  Returned =>
    \A i \in RankedRows :
      best_rows[i].stage = Some("relaxed") =>
        \A a \in AuditRowsOf(best_rows[i].loinc_code) :
          best_rows[i].score = Some(The(result).all_candidates[a].score_relaxed)

\* a row that reports a failed search and nothing else
IsSentinel(r) ==
  /\ r.rank = None /\ r.stage = None /\ r.score = None
  /\ r.error # None /\ The(r.error) # ""
  /\ \A v \in {r.loinc_code, r.display, r.definition, r.status, r.class, r.system,
               r.property, r.scale} : v = None
  /\ \A f \in FlagNames : r.flags[f] = None

\* a row that reports the candidate chosen at position i
IsRanked(r, i) ==
  /\ r.error = None
  /\ r.stage \in {Some("strict"), Some("relaxed")}
  /\ r.rank = Some(i)

\* [C13] Every best row of a returned term is either a sentinel (no rank, a
\* non-empty error, no stage, every data field empty) or a ranked row (no
\* error, stage strict or relaxed, rank equal to its 1-based position); a
\* sentinel never stands beside ranked rows, and no two rows share a rank.
C13_SentinelOrRanked ==
  Returned =>
    /\ \A i \in DOMAIN best_rows : IsSentinel(best_rows[i]) \/ IsRanked(best_rows[i], i)
    /\ (\E i \in DOMAIN best_rows : IsSentinel(best_rows[i])) =>
         \A i \in DOMAIN best_rows : IsSentinel(best_rows[i])
    /\ \A i, j \in RankedRows : best_rows[i].rank = best_rows[j].rank => i = j

\* Both kinds of result occur: two ranked rows of different stages here, a
\* lone sentinel in the states of C2 and C3.
C13_Witness ==
  /\ Returned
  /\ Len(best_rows) = 2
  /\ best_rows[1].stage = Some("strict")
  /\ best_rows[2].stage = Some("relaxed")
  /\ best_rows[2].rank = Some(2)

\* the list build_text_variants returned for the term in hand
AllVariants ==
  IF module = "lookup" THEN LookupBuildTextVariants(user_term, normalized)
  ELSE build_text_variants(user_term, normalized)

\* the positions of a list that hold the first occurrence of their string
FirstOccurrences(list) == {i \in DOMAIN list : \A j \in 1..(i - 1) : list[j] # list[i]}

\* [C14] The variant list of a term holds no string twice, holds exactly the
\* strings of the construction, each at the position its first occurrence has
\* among the first occurrences of the construction order, and starts with the
\* normalized phrase.  (The list depends on the term and its normalized phrase
\* only: the construction reads nothing else.)
C14_VariantsFirstOccurrenceOrder ==
  pc = "gather" =>
    \A built \in {VariantTerms(module = "lookup", user_term, normalized)} :
      \A list \in {AllVariants} :
        LET first == FirstOccurrences(built)
        IN /\ \A i, j \in DOMAIN list : list[i] = list[j] => i = j
           /\ Len(list) = Cardinality(first)
           /\ \A i \in first : list[Cardinality({j \in first : j <= i})] = built[i]
           /\ list[1] = normalized

\* A ratio term: the construction repeats the literal term and its hard hints.
C14_Witness ==
  /\ pc = "gather"
  /\ user_term = "FL/AC"
  /\ Len(VariantTerms(module = "lookup", user_term, normalized)) = Len(AllVariants) + 3
  /\ variant_idx = 2

\* [C15] A call of http_get_json sends a further request only after a response
\* with status 429, 502, 503 or 504, sleeps at most max_retries times and sends
\* at most max_retries + 1 requests; each sleep is the Retry-After of the
\* response when that is a number, else sleep_base * 2^(attempt - 1); when the
\* retries are used up the call raises the HTTP error, and the next call starts
\* from attempt 0; every call ends.
C15_BoundedRetries ==
  /\ [](/\ gets <= max_retries + 1
        /\ Len(slept) <= max_retries
        /\ (http_pc = "get") => (gets <= max_retries /\ gets = Len(slept))
        /\ (/\ http_pc = "raised" /\ http_raised # "conn_error"
            /\ resp # None /\ The(resp).status_code \in RetryStatuses) =>
             (http_raised = "http_error" /\ gets = max_retries + 1))
  /\ [][/\ (gets' = gets + 1 /\ gets >= 1) =>
             (resp # None /\ The(resp).status_code \in RetryStatuses)
        /\ (slept' # slept /\ slept' # <<>>) =>
             /\ gets' = gets + 1
             /\ The(resp').status_code \in RetryStatuses
             /\ slept' = Append(slept,
                  IF The(resp').retry_after = Some("7") THEN 7000
                  ELSE sleep_base * 2 ^ Len(slept))
        /\ (http_pc # "get" /\ http_pc' = "get") => (gets' = 0 /\ slept' = <<>>)]_vars
  /\ (http_pc = "get") ~> (http_pc \in {"returned", "raised"})

\* The retries of a call are used up: four requests, a backoff, a Retry-After of
\* seven seconds and a backoff again, then the HTTP error.
C15_Witness ==
  /\ http_pc = "raised"
  /\ http_raised = "http_error"
  /\ gets = max_retries + 1
  /\ slept = <<500, 7000, 2000>>
  /\ http_calls = 2

\* The keyword groups of the intent, in their order of priority: the keywords
\* looked for in the term and its normalized phrase, and the properties expected
\* when the group is the first to match.  The last group also matches a "/" in
\* the term.
IntentGroups ==
  <<[keys |-> {"circumference"}, props |-> {"Circ"}],
    [keys |-> {"diameter", "bpd"}, props |-> {"Diam", "Len"}],
    [keys |-> {"length", "femur", "humerus", "radius", "ulna", "tibia", "fibula", "long bone"},
     props |-> {"Len"}],
    [keys |-> {"heart rate", "fhr", "rate"}, props |-> {"Rate"}],
    [keys |-> {"estimated fetal weight", "efw", "weight", "mass"}, props |-> {"Mass"}],
    [keys |-> {"cisterna magna"}, props |-> {"Diam", "Len"}],
    [keys |-> {"cerebellum"}, props |-> {"Diam", "Len", "Circ"}],
    [keys |-> {" ratio "}, props |-> {"Rto"}]>>

RatioGroup == Len(IntentGroups)

\* the groups that match the term in hand
MatchingGroups ==
  {g \in DOMAIN IntentGroups :
     \/ \E k \in IntentGroups[g].keys : TextHas(user_term, normalized, k)
     \/ g = RatioGroup /\ LowerHas(strip_units(user_term), "/")}

UngatedCodes ==
  {enriched[i].code : i \in {j \in DOMAIN enriched :
     /\ ~Unreportable(enriched[j])
     /\ allow_derived \/ ~looks_derived_or_methodized(OrEmpty(Get(enriched[j], "display")))
     /\ allow_percentile \/ ~mentions_percentile(OrEmpty(Get(enriched[j], "display")))}}

\* [C17] For a numeric term every best row of stage strict has scale_match
\* and, when properties are expected, property_match.  For a term that is not
\* numeric the strict pass has no scale or property gate: it ranks every
\* reportable candidate the derived and percentile gates let through, also
\* when properties are expected and the candidate has another one.
C17_StrictGatesOnlyWhenNumeric ==
  Returned =>
    /\ numeric_expected =>
         \A i \in RankedRows : best_rows[i].stage = Some("strict") =>
           /\ best_rows[i].flags.scale_match = Some(TRUE)
           /\ expected_props # {} => best_rows[i].flags.property_match = Some(TRUE)
    /\ ~numeric_expected =>
         CodesOf(filter_and_rank(enriched, user_term, normalized, numeric_expected,
                                 expected_props, TRUE, allow_derived, allow_percentile))
           = UngatedCodes

\* A term that is not numeric and expects a property: a candidate with another
\* property is a strict row.
C17_Witness ==
  /\ Returned
  /\ ~numeric_expected
  /\ expected_props # {}
  /\ \E i \in RankedRows :
       /\ best_rows[i].stage = Some("strict")
       /\ best_rows[i].flags.property_match = Some(FALSE)

\* the ranking of the strict pass of the call that returned
StrictRanking ==
  filter_and_rank(enriched, user_term, normalized, numeric_expected, expected_props, TRUE,
                  allow_derived, allow_percentile)

\* [C18] A best row of stage relaxed occurs only when the strict ranking has
\* fewer than top_k candidates; when it has at least top_k, the ranked rows are
\* exactly its first top_k candidates, all of stage strict.  (The first top_k of
\* a list are none when top_k is not positive.)
C18_RelaxedOnlyWhenStrictShort ==
  Returned =>
    LET strict_ranked == StrictRanking IN
    /\ (\E i \in RankedRows : best_rows[i].stage = Some("relaxed")) =>
         Len(strict_ranked) < top_k
    /\ Len(strict_ranked) >= top_k =>
         /\ [i \in RankedRows |-> The(best_rows[i].loinc_code)]
              = [i \in 1..top_k |-> strict_ranked[i].code]
         /\ \A i \in RankedRows : best_rows[i].stage = Some("strict")

\* [C19] Gathering stops as soon as the pool has GLOBAL_CANDIDATE_CAP codes:
\* an $expand call is only made while the pool is below the cap, and since
\* codes are merged one at a time and none is merged once the cap is reached,
\* the pool never grows past it.
C19_GatheringStopsAtCap ==
  /\ pc = "gather" => Len(raw_candidates) < GLOBAL_CANDIDATE_CAP
  /\ Len(raw_candidates) <= GLOBAL_CANDIDATE_CAP

\* the failures of http_get_json that are transport or parse errors
TransportOrParse == {"http_error", "conn_error", "bad_json"}

\* [C20] When the expand of a variant, in its first call or in its fallback
\* call, fails with a transport or parse error, the pool is as it was before
\* the variant, nothing leaves the term, and the loop goes on with the next
\* variant in order (or, after the last variant, with the rest of the term).
C20_FailedVariantIsSkipped ==
  [][(/\ pc = "gather"
      /\ expand_error' # None
      /\ The(expand_error').failure \in TransportOrParse)
     => /\ raw_candidates' = raw_candidates
        /\ raised' = "none"
        /\ IF variant_idx < Len(variants)
           THEN pc' = "gather" /\ variant_idx' = variant_idx + 1
           ELSE pc' \in {"empty", "enrich"} /\ variant_idx' = 0]_vars

C20_Witness ==
  /\ module = "remote"
  /\ pc = "gather"
  /\ variant_idx = 2
  /\ expand_error = Some([call |-> "first", failure |-> "bad_json"])
  /\ raw_candidates = <<>>

\* [C21] While the pool is enriched, every step is one lookup of the next code
\* of the pool, in pool order: either the details of that code are appended to
\* the result or, when the lookup failed, the result is left as it was (no
\* partial record); in both cases the loop goes on with the next code, so the
\* result holds the codes whose lookup succeeded, each once, in pool order.
C21_EnrichDropsFailedLookups ==
  [][pc = "enrich"
     => /\ lookups = lookup_idx - 1
        /\ lookups' = lookups + 1
        /\ lookup_idx' = lookup_idx + 1
        /\ pc' = IF lookup_idx = Len(raw_candidates) THEN "select" ELSE "enrich"
        /\ raised' = "none"
        /\ \/ enriched' = enriched
           \/ enriched' = Append(enriched, LookupDetails(raw_candidates[lookup_idx].code))]_vars

\* contains[:cap] after the sort of the module, for the variant v
Kept(answer, v) ==
  Slice(Items(SortedDescending(WithPrefilterKey(answer, v, module = "remote"))), TrimCap(top_k))

\* [C22] Merging is first-seen-wins: a merge leaves the entries of the pool as
\* they were, in their places, every code is in the pool once, and an entry
\* that the merge adds has the display of the first kept occurrence of its
\* code in the answer.
C22_FirstSeenWins ==
  [][pc = "gather"
     => LET kept == Kept(expansion', variants[variant_idx])
            old == Len(raw_candidates)
            new == raw_candidates'
        IN /\ Len(new) >= old
           /\ SubSeq(new, 1, old) = raw_candidates
           /\ \A i, j \in DOMAIN new : i # j => new[i].code # new[j].code
           /\ \A j \in (old + 1)..Len(new) :
                \E k \in DOMAIN kept :
                  /\ kept[k] = new[j]
                  /\ \A h \in 1..(k - 1) : kept[h].code # kept[k].code]_vars

C22_Witness ==
  /\ variant_idx = 0
  /\ expansion = <<[code |-> "11984-2", display |-> "Head circumference"],
                   [code |-> "LP28442-8", display |-> "Head circumference"]>>
  /\ raw_candidates = <<[code |-> "11984-2", display |-> "Fetal Head Circumference US"],
                        [code |-> "LP28442-8", display |-> "Head circumference"]>>

\* the entries that a merge added to the pool
Added == {raw_candidates'[j] : j \in (Len(raw_candidates) + 1)..Len(raw_candidates')}

\* [C23] The answer of a variant is sorted in descending order of the prefilter
\* score of each display against the text of that variant, and only the first
\* max(per_variant_cap, DEFAULT_MAX_VARIANT_RESULTS) are merged: the entries
\* that a merge adds come in non-increasing score, there are no more of them
\* than the trim allows and, unless the merge stopped at the cap of the pool,
\* no entry with a code that stays outside the pool has a higher score than an
\* entry that was added.
C23_SortedByVariantScoreAndTrimmed ==
  [][pc = "gather"
     => LET v == variants[variant_idx]
            score(c) == prefilter_score_for_variant(c.display, v)
            old == Len(raw_candidates)
            new == raw_candidates'
        IN /\ Len(new) - old <= TrimCap(top_k)
           /\ \A i, j \in (old + 1)..Len(new) : i < j => score(new[i]) >= score(new[j])
           /\ Len(new) < GLOBAL_CANDIDATE_CAP =>
                \A i \in DOMAIN expansion' :
                  LET x == expansion'[i] IN
                  (x.code # "" /\ x.code \notin CodesOf(new)) =>
                    \A y \in Added : score(y) >= score(x)]_vars

\* s has a bracketed token: "[", at least one character, "]"
HasBracketedToken(s) ==
  \E i, j \in DOMAIN s :
    /\ j > i + 1 /\ s[i] = "[" /\ s[j] = "]"
    /\ \A h \in (i + 1)..(j - 1) : s[h] # "]"

\* f is a loosened form of the filter of the call: no bracketed token, none of
\* ( ) , . : ; (a space stands where one was), no whitespace but single spaces
\* between other characters and no other character than those of the filter;
\* at least 3 long and another string than the filter
IsLoosened(f) ==
  /\ Len(f) >= 3
  /\ f # text_filter
  /\ ~HasBracketedToken(f)
  /\ \A i \in DOMAIN f :
       /\ f[i] \notin Punctuation
       /\ f[i] = " " \/ \E h \in DOMAIN text_filter : text_filter[h] = f[i]
  /\ f[1] # " " /\ f[Len(f)] # " "
  /\ \A i \in 1..(Len(f) - 1) : ~(f[i] = " " /\ f[i + 1] = " ")

\* [C24] One call of expand_valueset_candidates sends at most two requests, the
\* first with the filter it was given.  A second request is sent only after the
\* first one answered without entries, and its filter is the loosened filter,
\* at least 3 characters long and not the given filter.  What the last request
\* answered is what the call returns; a fallback that answers without entries
\* makes the call return the empty list and raises nothing.
C24_AtMostOneFallback ==
  /\ Len(expand_calls) <= 2
  /\ Len(expand_calls) >= 1 => expand_calls[1].filter = text_filter
  /\ (expand_pc = "fallback" \/ Len(expand_calls) = 2) =>
       /\ expand_calls[1].data # None
       /\ ContainsOf(The(expand_calls[1].data)) = <<>>
  /\ Len(expand_calls) = 2 => IsLoosened(expand_calls[2].filter)
  /\ (Len(expand_calls) = 2 /\ expand_calls[2].data # None) => expand_pc = "returned"
  /\ expand_pc = "returned" =>
       LET last == expand_calls[Len(expand_calls)] IN
       /\ last.data # None
       /\ expansion = ContainsOf(The(last.data))
       /\ expand_error = None

C24_Witness ==
  /\ text_filter = <<"a", ",", "a">>
  /\ expand_calls = <<[filter |-> <<"a", ",", "a">>, data |-> Some("null_contains")],
                      [filter |-> <<"a", " ", "a">>, data |-> Some("empty_contains")]>>
  /\ expand_pc = "returned"
  /\ expansion = <<>>
  /\ expand_error = None

\* the terms of the scoring table for the arguments a, one per line
ScoringTable(a) ==
  LET props == PropsOf(a.details)
      scale == Get(props, "SCALE_TYP")
      disp == OrEmpty(Get(a.details, "display"))
      code == OrEmpty(Get(a.details, "code"))
      Has(k, lit) == LowerHas(OrEmpty(Get(props, k)), lit)
      ultrasound == \/ Has("CLASS", "us") \/ Has("CLASS", "ob")
                    \/ LowerHas(disp, "ultrasound") \/ LowerHas(disp, " us")
      fetal == \/ LowerHas(disp, "fetal") \/ LowerHas(disp, "fetus")
               \/ Lower(OrEmpty(Get(props, "super-system"))) = "fetus"
               \/ Has("system-core", "fetus") \/ Has("SYSTEM", "fetus")
      requested == LowerHas(a.user_term, "left") \/ LowerHas(a.user_term, "right")
  IN <<IF a.expected_props # {} /\ Get(props, "PROPERTY") \in {Some(q) : q \in a.expected_props}
       THEN 12 ELSE 0,
       IF a.numeric_expected /\ scale = Some("Qn") THEN 6 ELSE 0,
       IF scale = Some("Qn") THEN 2 ELSE 0,
       IF ultrasound THEN 3 ELSE 0,
       IF fetal THEN 2 ELSE 0,
       IF a.flags.is_derived THEN (IF a.allow_derived THEN -4 ELSE -10) ELSE 0,
       IF a.flags.is_percentile THEN (IF a.allow_percentile THEN -2 ELSE -8) ELSE 0,
       IF a.flags.has_laterality /\ ~requested THEN -3 ELSE 0,
       IF a.numeric_expected /\ (scale \in {Some("Ord"), Some("Nar")} \/ LowerHas(disp, "narrative"))
       THEN -4 ELSE 0,
       CountHits(Tokens(a.normalized), Fragments(disp)),
       IF is_loinc_part(code) \/ is_loinc_answer_list(code) THEN 0 ELSE 1,
       IF is_deprecated(Get(a.details, "status"), disp) THEN 0 ELSE 1>>

RECURSIVE SumOf(_)
SumOf(ts) == IF ts = <<>> THEN 0 ELSE Head(ts) + SumOf(Tail(ts))

\* [C25] final_score is the sum of the signed terms of the scoring table, and
\* the final_score of loinc_lookup gives the same number as the one of
\* loinc_fetal_biometry_remote_query, for the same arguments.
C25_ScoreIsSumOfTable ==
  score_out # None =>
    /\ The(score_out).remote = SumOf(ScoringTable(The(score_in)))
    /\ The(score_out).lookup = The(score_out).remote

\* a derived percentile with laterality, scored where derived is allowed and
\* percentile is not: 12 + 6 + 2 + 3 + 2 - 4 - 8 - 3 + 2 + 1 + 1
C25_Witness ==
  /\ score_out # None
  /\ The(score_in).details = LookupDetails("11984-2")
  /\ The(score_in).user_term = "HC (cm)"
  /\ The(score_in).flags.is_derived /\ The(score_in).flags.is_percentile
  /\ The(score_in).flags.has_laterality
  /\ The(score_in).allow_derived /\ ~The(score_in).allow_percentile
  /\ The(score_in).numeric_expected /\ The(score_in).expected_props = {"Circ"}
  /\ The(score_out).remote = 14
  /\ The(score_out).lookup = 14

\* the arguments of a score of the candidate d of the current term
ScoreArgs(d, derived_allowed, percentile_allowed, numeric) ==
  [details |-> d, user_term |-> user_term, normalized |-> normalized,
   flags |-> compute_feature_flags(d, numeric_expected, expected_props),
   allow_derived |-> derived_allowed, allow_percentile |-> percentile_allowed,
   numeric_expected |-> numeric, expected_props |-> expected_props]

\* [C26] The audit rows of a term are one row per enriched candidate, in the
\* order of enrichment, whether or not the candidate can be ranked; the row of
\* a candidate has its code, its score_strict under the allowances and the
\* numeric expectation of the term, and its score_relaxed under both allowances
\* and no numeric expectation.
C26_AuditRowPerEnriched ==
  Returned =>
    LET rows == The(result).all_candidates IN
    /\ Len(rows) = Len(enriched)
    /\ \A i \in DOMAIN rows :
         /\ rows[i].loinc_code = Get(enriched[i], "code")
         /\ rows[i].search_term = user_term
         /\ rows[i].score_strict =
              SumOf(ScoringTable(ScoreArgs(enriched[i], allow_derived, allow_percentile,
                                           numeric_expected)))
         /\ rows[i].score_relaxed = SumOf(ScoringTable(ScoreArgs(enriched[i], TRUE, TRUE, FALSE)))

\* a part code and a deprecated code: no ranked row, two audit rows
C26_Witness ==
  /\ Returned
  /\ user_term = "HC (cm)"
  /\ enriched = <<LookupDetails("LP28442-8"), LookupDetails("11819-0")>>
  /\ SentinelRows = {1}
  /\ Len(The(result).all_candidates) = 2
  /\ The(result).all_candidates[1].loinc_code = Some("LP28442-8")
  /\ The(result).all_candidates[2].score_strict # The(result).all_candidates[2].score_relaxed

\* no two enriched records have the same code
UniqueCodes == \A i, j \in DOMAIN enriched : enriched[i].code = enriched[j].code => i = j

\* the enriched candidates that are no part, no answer list and not deprecated
Eligible == {i \in DOMAIN enriched : ~Unreportable(enriched[i])}

\* [C27] For top_k >= 0 and enriched records of distinct codes, the selection
\* of _strict_then_relaxed has min(top_k, number of eligible candidates) rows:
\* the relaxed pass accepts every candidate the strict pass accepts and fills
\* the free slots while an eligible candidate is left.  These are the ranked
\* rows of the result.
C27_RankedCountIsMinOfTopKAndEligible ==
  (Returned /\ top_k >= 0 /\ UniqueCodes) =>
    /\ Len(Chosen) = Min(top_k, Cardinality(Eligible))
    /\ Cardinality(RankedRows) = Len(Chosen)
    /\ CodesOf(StrictRanking)
         \subseteq CodesOf(filter_and_rank(enriched, user_term, normalized, numeric_expected,
                                           expected_props, FALSE, TRUE, TRUE))

\* one strict row, then the relaxed pass fills the second slot
C27_Witness ==
  /\ Returned /\ top_k = 2 /\ UniqueCodes
  /\ Len(enriched) = 2 /\ Cardinality(Eligible) = 2
  /\ Len(StrictRanking) = 1
  /\ Cardinality(RankedRows) = 2
  /\ best_rows[2].stage = Some("relaxed")

\* the sort tuple of a ranked best row, read from the row's score and flags
BestRowTuple(r) ==
  <<The(r.score),
    IF The(r.flags.property_match) THEN 1 ELSE 0,
    IF The(r.flags.scale_match) THEN 1 ELSE 0,
    IF The(r.flags.is_derived) THEN 0 ELSE 1,
    IF The(r.flags.is_percentile) THEN 0 ELSE 1>>

\* [C28] In the ranked rows of a term every strict row stands before every
\* relaxed row, the rows of one stage are in non-increasing order of the sort
\* tuple (score, property_match, scale_match, not derived, not percentile), and
\* the ranks are 1..n in the order of the rows; a relaxed row is below every
\* strict row whatever its score.
C28_StrictFirstThenByTuple ==
  Returned =>
    /\ RankedRows = 1..Cardinality(RankedRows)
    /\ \A i \in RankedRows : best_rows[i].rank = Some(i)
    /\ \A i, j \in RankedRows :
         i < j =>
           /\ best_rows[i].stage = Some("relaxed") => best_rows[j].stage = Some("relaxed")
           /\ best_rows[i].stage = best_rows[j].stage =>
                ~TupleLess(BestRowTuple(best_rows[i]), BestRowTuple(best_rows[j]))

\* a relaxed row with a higher score than the strict row above it: the derived
\* measurement of the head under the plain measurement of the abdomen
C28_Witness ==
  /\ Returned
  /\ \E i, j \in RankedRows :
       /\ i < j
       /\ best_rows[i].stage = Some("strict")
       /\ best_rows[j].stage = Some("relaxed")
       /\ The(best_rows[i].score) = 23
       /\ The(best_rows[j].score) = 25

\* [C29] As the specification states it: for an intent with numeric_expected
\* the flag scale_match is true exactly when the score holds the +6 bonus of a
\* quantitative scale, and for a non-empty expected_props the flag
\* property_match is true exactly when the score holds the +12 bonus of the
\* property, for every spelling of SCALE_TYP and PROPERTY.  (The terms of
\* _score_property_scale are 12, 6 and 2, so the sum shows each of them.)
C29_FlagsAgreeWithBonuses ==
  score_out # None =>
    LET a == The(score_in)
        o == The(score_out)
    IN /\ a.numeric_expected => (o.flags.scale_match <=> (o.property_scale % 12) >= 6)
       /\ a.expected_props # {} => (o.flags.property_match <=> o.property_scale >= 12)

\* the records that were enriched, as $lookup answered them
Original == [i \in DOMAIN raw_candidates |-> LookupDetails(raw_candidates[i])]

\* the rows the strict pass chose, computed from the records as they were
StrictChosen ==
  Slice(filter_and_rank(Original, user_term, normalized, numeric_expected, expected_props,
                        TRUE, allow_derived, allow_percentile),
        top_k)

\* [C30] filter_and_rank leaves its input unchanged: after the strict pass,
\* after the relaxed pass and when the audit rows are built, the enriched list
\* holds the records that were enriched, in their order, with no _flags, _score
\* or _stage; and the rows chosen in the strict pass are still the first rows of
\* the selection, with their strict score and the tag "strict", after the
\* relaxed pass has run.
C30_InputUnchanged ==
  /\ enriched = Original
  /\ \A i \in DOMAIN enriched : DOMAIN enriched[i] \cap {"_flags", "_score", "_stage"} = {}
  /\ pass_pc \in {"relaxed", "build", "done"} =>
       /\ Len(pass_chosen) >= Len(StrictChosen)
       /\ \A i \in DOMAIN StrictChosen :
            /\ pass_chosen[i] = StrictChosen[i]
            /\ pass_chosen[i]._stage = "strict"
            /\ pass_chosen[i]._score =
                 SumOf(ScoringTable(ScoreArgs(LookupDetails(pass_chosen[i].code),
                                              allow_derived, allow_percentile,
                                              numeric_expected)))
  /\ pass_pc = "done" =>
       \A i \in DOMAIN StrictChosen :
         /\ best_rows[i].stage = Some("strict")
         /\ best_rows[i].score = Some(StrictChosen[i]._score)

\* both passes have run: a strict row, then a relaxed row, and the two records
\* are as they were
C30_Witness ==
  /\ pass_pc = "done"
  /\ Len(enriched) = 2 /\ enriched = Original
  /\ Len(StrictChosen) = 1 /\ Len(pass_chosen) = 2
  /\ pass_chosen[1]._stage = "strict" /\ pass_chosen[2]._stage = "relaxed"
  /\ Len(The(result).all_candidates) = 2

====
